---------------------------- MODULE Spec2Model ----------------------------
(***************************************************************************)
(* FinTrack AI: the transaction list of App.tsx, the aggregate statistics  *)
(* (stats) and the sorted and filtered table (sortedAndFilteredTrans-      *)
(* actions) derived from it.  Amounts are integers (cents); strings are    *)
(* TLA+ strings whose order is the order of their UTF-16 code units, as    *)
(* JavaScript's < and > compare them.                                      *)
(***************************************************************************)
EXTENDS Integers, Sequences, FiniteSets, TLC

VARIABLES
    transactions,                  \* useState<Transaction[]>([])
    categories,                    \* useState<string[]>([...])
    selectedCategory,              \* useState<string | null>(null)
    sortConfig,                    \* useState({key: 'date', direction: 'desc'})
    editingTransaction,            \* useState<Transaction | null>(null)
    isModalOpen,                   \* useState(false)
    isCategoryModalOpen,           \* useState(false)
    selectedIncomeFile,            \* useState<File | null>(null)
    selectedExpenseFile,           \* useState<File | null>(null)
    isImporting,                   \* useState(false)
    importTask,                    \* the running handleExecuteImport, or Null
    alerted,                       \* the text of the alert(...) the last import
                                   \* showed, or Null
    insights,                      \* useState<string | null>(null)
    loadingInsights,               \* useState(false)
    insightTask,                   \* the request generateAIInsights awaits, or Null
    importedSince,                 \* history: an import has succeeded while the
                                   \* request last issued was in flight
    effectPending,                 \* useEffect([transactions]) is yet to run
    stats,                         \* useMemo value of stats
    sortedAndFilteredTransactions, \* useMemo value of the table
    call,                          \* arguments of a direct call of a pure function
    result,                        \* what that call returned
    pc                             \* "app" (or "part_002", the variant component),
                                   \* or "call" / "awaiting" / "done" of a
                                   \* direct call

appVars == <<transactions, categories, selectedCategory, sortConfig,
             editingTransaction, isModalOpen, isCategoryModalOpen,
             selectedIncomeFile, selectedExpenseFile, isImporting, importTask,
             alerted, insights, loadingInsights, insightTask, importedSince,
             effectPending,
             stats, sortedAndFilteredTransactions>>
insightVars == <<insights, loadingInsights, insightTask, importedSince>>
callVars == <<call, result, pc>>
vars == <<transactions, categories, selectedCategory, sortConfig,
          editingTransaction, isModalOpen, isCategoryModalOpen,
          selectedIncomeFile, selectedExpenseFile, isImporting, importTask,
          alerted, insights, loadingInsights, insightTask, importedSince,
          effectPending,
          stats, sortedAndFilteredTransactions, call, result, pc>>

(***************************************************************************)
(* JavaScript values                                                       *)
(***************************************************************************)

\* null (selectedCategory, editingTransaction, a file not selected)
Null == <<>>
Some(v) == <<v>>
ValueOf(opt) == opt[1]

INCOME == "INCOME"
EXPENSE == "EXPENSE"
TransactionType == {EXPENSE, INCOME}

\* The UTF-16 code units of every string the model compares.
CodeUnits ==
    ("Rent" :> <<82, 101, 110, 116>>) @@
    ("Food" :> <<70, 111, 111, 100>>) @@
    ("10" :> <<49, 48>>) @@
    ("Fuel" :> <<70, 117, 101, 108>>) @@
    ("2" :> <<50>>) @@
    ("Gym" :> <<71, 121, 109>>) @@
    ("Pets" :> <<80, 101, 116, 115>>) @@
    ("food" :> <<102, 111, 111, 100>>) @@
    ("Books" :> <<66, 111, 111, 107, 115>>) @@
    ("Taxes" :> <<84, 97, 120, 101, 115>>) @@
    ("Gifts" :> <<71, 105, 102, 116, 115>>) @@
    ("Travel" :> <<84, 114, 97, 118, 101, 108>>) @@
    ("constructor" :> <<99, 111, 110, 115, 116, 114, 117, 99, 116, 111, 114>>) @@
    ("__proto__" :> <<95, 95, 112, 114, 111, 116, 111, 95, 95>>) @@
    ("Outros" :> <<79, 117, 116, 114, 111, 115>>) @@
    ("Salário" :> <<83, 97, 108, 225, 114, 105, 111>>) @@
    ("Supermercado" :> <<83, 117, 112, 101, 114, 109, 101, 114, 99, 97, 100, 111>>) @@
    ("Renda" :> <<82, 101, 110, 100, 97>>) @@
    ("Lazer" :> <<76, 97, 122, 101, 114>>) @@
    ("Transporte" :> <<84, 114, 97, 110, 115, 112, 111, 114, 116, 101>>) @@
    ("Serviços" :> <<83, 101, 114, 118, 105, 231, 111, 115>>) @@
    ("Saúde" :> <<83, 97, 250, 100, 101>>) @@
    ("INCOME" :> <<73, 78, 67, 79, 77, 69>>) @@
    ("EXPENSE" :> <<69, 88, 80, 69, 78, 83, 69>>) @@
    ("" :> <<>>) @@
    ("coffee" :> <<99, 111, 102, 102, 101, 101>>) @@
    ("Zoo" :> <<90, 111, 111>>) @@
    ("t1" :> <<116, 49>>) @@
    ("t2" :> <<116, 50>>) @@
    ("t3" :> <<116, 51>>) @@
    ("t4" :> <<116, 52>>) @@
    ("t5" :> <<116, 53>>) @@
    ("id1" :> <<105, 100, 49>>) @@
    ("id2" :> <<105, 100, 50>>) @@
    ("Other" :> <<79, 116, 104, 101, 114>>) @@
    ("General" :> <<71, 101, 110, 101, 114, 97, 108>>) @@
    ("Salary" :> <<83, 97, 108, 97, 114, 121>>) @@
    ("Groceries" :> <<71, 114, 111, 99, 101, 114, 105, 101, 115>>) @@
    ("Entertainment" :> <<69, 110, 116, 101, 114, 116, 97, 105, 110, 109, 101, 110, 116>>) @@
    ("Transport" :> <<84, 114, 97, 110, 115, 112, 111, 114, 116>>) @@
    ("Utilities" :> <<85, 116, 105, 108, 105, 116, 105, 101, 115>>) @@
    ("Healthcare" :> <<72, 101, 97, 108, 116, 104, 99, 97, 114, 101>>) @@
    ("Uncategorized" :> <<85, 110, 99, 97, 116, 101, 103, 111, 114, 105, 122, 101, 100>>) @@
    ("2024-01-01" :> <<50, 48, 50, 52, 45, 48, 49, 45, 48, 49>>) @@
    ("2024-01-02" :> <<50, 48, 50, 52, 45, 48, 49, 45, 48, 50>>) @@
    ("2024-02-01" :> <<50, 48, 50, 52, 45, 48, 50, 45, 48, 49>>) @@
    ("2023-12-31" :> <<50, 48, 50, 51, 45, 49, 50, 45, 51, 49>>)

\* s < t on two sequences of code units: the first differing unit decides, a
\* proper prefix is smaller.
RECURSIVE SeqLess(_, _)
SeqLess(s, t) ==
    IF t = <<>> THEN FALSE
    ELSE IF s = <<>> THEN TRUE
    ELSE IF Head(s) < Head(t) THEN TRUE
    ELSE IF Head(s) > Head(t) THEN FALSE
    ELSE SeqLess(Tail(s), Tail(t))

\* aValue < bValue of the comparator: numeric on amount, by code units on the
\* string fields.
JsLess(key, aValue, bValue) ==
    IF key = "amount" THEN aValue < bValue
    ELSE SeqLess(CodeUnits[aValue], CodeUnits[bValue])

\* Number.prototype.toString of an integer.
Digits == <<"0", "1", "2", "3", "4", "5", "6", "7", "8", "9">>
RECURSIVE NatToString(_)
NatToString(n) ==
    IF n < 10 THEN Digits[n + 1]
    ELSE NatToString(n \div 10) \o Digits[(n % 10) + 1]
NumToString(n) == IF n < 0 THEN "-" \o NatToString(-n) ELSE NatToString(n)

\* A value held by a property of expenseMap, or found on its prototype chain.
JsNumber(n) == [kind |-> "number", num |-> n, str |-> ""]
JsString(s) == [kind |-> "string", num |-> 0, str |-> s]
JsObject(s) == [kind |-> "object", num |-> 0, str |-> s]
Undefined == [kind |-> "undefined", num |-> 0, str |-> ""]

\* What a lookup on the plain object {} finds when the key is no own property:
\* Object.prototype.constructor is the function Object, and __proto__ is the
\* accessor that returns Object.prototype; str is the value's string conversion.
ObjectPrototype ==
    ("constructor" :> JsObject("function Object() { [native code] }")) @@
    ("__proto__" :> JsObject("[object Object]"))

\* The canonical array-index keys, which an object enumerates first and in
\* ascending numeric order.
ArrayIndex == ("2" :> 2) @@ ("10" :> 10)
IsArrayIndex(name) == name \in DOMAIN ArrayIndex

Truthy(v) ==
    CASE v.kind = "number" -> v.num # 0
      [] v.kind = "string" -> v.str # ""
      [] v.kind = "object" -> TRUE
      [] OTHER -> FALSE

\* (v || 0)
OrZero(v) == IF Truthy(v) THEN v ELSE JsNumber(0)

\* v + amount, amount a number: numeric addition of two numbers, and string
\* concatenation as soon as v is a string or an object.
JsPlus(v, amount) ==
    IF v.kind = "number" THEN JsNumber(v.num + amount)
    ELSE JsString(v.str \o NumToString(amount))

IsNumber(v) == v.kind = "number"

(***************************************************************************)
(* Array.prototype.sort                                                    *)
(*                                                                         *)
(* The engine's sort of an array shorter than 64 elements.  The V8 of Node *)
(* 22 finds the leading run (and reverses it when strictly descending) and *)
(* places the remaining elements by binary insertion; the V8 of Chrome 147 *)
(* does so on arrays of more than 7 elements and places the elements of a  *)
(* shorter array by binary insertion from the second on, with no scan for  *)
(* a run.  Both are stable, and they return the same array whenever the    *)
(* comparator is a consistent order.  cmp is the table of the comparator's *)
(* results, cmp[<<x, y>>] = comparefn(x, y) with a NaN result read as 0.   *)
(***************************************************************************)

\* The engines the build may run on.
Engines == {"node22", "chrome147"}

Range(seq) == {seq[i] : i \in 1..Len(seq)}
Reverse(seq) == [i \in 1..Len(seq) |-> seq[Len(seq) + 1 - i]]
Slice(seq, from, to) == [i \in 1..(to - from + 1) |-> seq[from + i - 1]]

\* The end of the run that starts at index 1, scanning from idx.
RECURSIVE RunEnd(_, _, _, _)
RunEnd(a, cmp, isDescending, idx) ==
    IF idx > Len(a) THEN idx - 1
    ELSE LET order == cmp[<<a[idx], a[idx - 1]>>]
         IN  IF isDescending /\ order >= 0 THEN idx - 1
             ELSE IF ~isDescending /\ order < 0 THEN idx - 1
             ELSE RunEnd(a, cmp, isDescending, idx + 1)

\* The position, in a[left..right-1], where pivot is inserted.
RECURSIVE BinarySearch(_, _, _, _, _)
BinarySearch(a, cmp, pivot, left, right) ==
    IF left >= right THEN left
    ELSE LET mid == left + ((right - left) \div 2)
         IN  IF cmp[<<pivot, a[mid]>>] < 0
             THEN BinarySearch(a, cmp, pivot, left, mid)
             ELSE BinarySearch(a, cmp, pivot, mid + 1, right)

RECURSIVE BinaryInsertionSort(_, _, _)
BinaryInsertionSort(a, cmp, start) ==
    IF start > Len(a) THEN a
    ELSE LET pivot == a[start]
             left == BinarySearch(a, cmp, pivot, 1, start)
             placed == [i \in 1..Len(a) |->
                          IF i < left THEN a[i]
                          ELSE IF i = left THEN pivot
                          ELSE IF i <= start THEN a[i - 1]
                          ELSE a[i]]
         IN  BinaryInsertionSort(placed, cmp, start + 1)

ArraySort(a, cmp, engine) ==
    IF Len(a) < 2 THEN a
    ELSE IF engine = "chrome147" /\ Len(a) <= 7
    THEN BinaryInsertionSort(a, cmp, 2)
    ELSE LET isDescending == cmp[<<a[2], a[1]>>] < 0
             runLength == RunEnd(a, cmp, isDescending, 3)
             run == IF isDescending
                    THEN Reverse(Slice(a, 1, runLength))
                         \o Slice(a, runLength + 1, Len(a))
                    ELSE a
         IN  BinaryInsertionSort(run, cmp, runLength + 1)

(***************************************************************************)
(* stats (the Aggregator, computeStats)                                    *)
(***************************************************************************)

COLORS == <<"#6366f1", "#10b981", "#f59e0b", "#ef4444", "#8b5cf6",
            "#ec4899", "#06b6d4", "#2dd4bf", "#fb7185", "#a855f7">>

\* .reduce((sum, t) => sum + t.amount, 0)
RECURSIVE ReduceSum(_, _)
ReduceSum(seq, sum) ==
    IF seq = <<>> THEN sum ELSE ReduceSum(Tail(seq), sum + Head(seq).amount)

\* A filter that keeps every record (the mutant of C2).
OfTypeUnfiltered(ts, type) == ts

OfType(ts, type) == SelectSeq(ts, LAMBDA t : t.type = type)

\* expenseMap is the sequence of its own properties, in creation order.
HasOwn(map, name) == \E i \in 1..Len(map) : map[i].name = name

\* expenseMap[name]
MapGet(map, name) ==
    IF HasOwn(map, name)
    THEN (CHOOSE e \in Range(map) : e.name = name).value
    ELSE IF name \in DOMAIN ObjectPrototype THEN ObjectPrototype[name]
    ELSE Undefined

\* expenseMap[name] = value.  The __proto__ setter ignores a value that is
\* neither an object nor null, and creates no property.
MapSet(map, name, value) ==
    IF name = "__proto__" THEN map
    ELSE IF HasOwn(map, name)
    THEN [i \in 1..Len(map) |->
            IF map[i].name = name THEN [name |-> name, value |-> value]
            ELSE map[i]]
    ELSE Append(map, [name |-> name, value |-> value])

\* forEach(t => expenseMap[t.category] = (expenseMap[t.category] || 0) + t.amount)
RECURSIVE BuildExpenseMap(_, _)
BuildExpenseMap(expenses, map) ==
    IF expenses = <<>> THEN map
    ELSE LET t == Head(expenses)
         IN  BuildExpenseMap(Tail(expenses),
                 MapSet(map, t.category,
                        JsPlus(OrZero(MapGet(map, t.category)), t.amount)))

\* The array-index keys of the map in ascending numeric order.
RECURSIVE IndexEntries(_, _)
IndexEntries(map, done) ==
    LET left == {e \in Range(map) : IsArrayIndex(e.name) /\ e.name \notin done}
    IN  IF left = {} THEN <<>>
        ELSE LET least == CHOOSE e \in left :
                            \A f \in left : ArrayIndex[e.name] <= ArrayIndex[f.name]
             IN  <<least>> \o IndexEntries(map, done \cup {least.name})

\* Object.entries(expenseMap).map(([name, value]) => ({ name, value }))
ObjectEntries(map) ==
    IndexEntries(map, {}) \o SelectSeq(map, LAMBDA e : ~IsArrayIndex(e.name))

\* (a, b) => b.value - a.value; a subtraction with a non-numeric string is NaN,
\* which the sort reads as 0.
CompareValue(a, b) ==
    IF IsNumber(a.value) /\ IsNumber(b.value)
    THEN b.value.num - a.value.num
    ELSE 0

\* .slice(0, 10): the cut is the palette's length in the model, as the source
\* writes the same number twice.
TopN == Len(COLORS)

\* The palette indexed by the 1-based rank (the mutant of C6).
WithColorOffByOne(items) ==
    [index \in 1..Len(items) |->
        [name |-> items[index].name, value |-> items[index].value,
         color |-> COLORS[(index % Len(COLORS)) + 1]]]

WithColor(items) ==
    [index \in 1..Len(items) |->
        [name |-> items[index].name, value |-> items[index].value,
         color |-> COLORS[((index - 1) % Len(COLORS)) + 1]]]

expenseByCategoryOf(ts, engine) ==
    LET expenseMap == BuildExpenseMap(OfType(ts, EXPENSE), <<>>)
        entries == ObjectEntries(expenseMap)
        cmp == [p \in Range(entries) \X Range(entries) |-> CompareValue(p[1], p[2])]
        sorted == ArraySort(entries, cmp, engine)
        top == IF Len(sorted) > TopN THEN Slice(sorted, 1, TopN) ELSE sorted
    IN  WithColor(top)

\* A balance that adds the expenses (the mutant of C1).
computeStatsAddingExpenses(ts, engine) ==
    LET totalIncome == ReduceSum(OfType(ts, INCOME), 0)
        totalExpenses == ReduceSum(OfType(ts, EXPENSE), 0)
    IN  [totalIncome |-> totalIncome,
         totalExpenses |-> totalExpenses,
         balance |-> totalIncome + totalExpenses,
         expenseByCategory |-> expenseByCategoryOf(ts, engine)]

computeStats(ts, engine) ==
    LET totalIncome == ReduceSum(OfType(ts, INCOME), 0)
        totalExpenses == ReduceSum(OfType(ts, EXPENSE), 0)
    IN  [totalIncome |-> totalIncome,
         totalExpenses |-> totalExpenses,
         balance |-> totalIncome - totalExpenses,
         expenseByCategory |-> expenseByCategoryOf(ts, engine)]

(***************************************************************************)
(* sortedAndFilteredTransactions (the View Projector, project)             *)
(***************************************************************************)

\* SortKey = keyof Transaction
SortKeys == {"id", "type", "category", "amount", "date", "description"}
SortDirections == {"asc", "desc"}

\* A comparator that ignores the direction (the mutant of C9), and one that
\* always sorts descending (the mutant of C10).
CompareTransactionsAscending(config, a, b) ==
    IF JsLess(config.key, a[config.key], b[config.key]) THEN -1
    ELSE IF JsLess(config.key, b[config.key], a[config.key]) THEN 1
    ELSE 0
CompareTransactionsDescending(config, a, b) ==
    IF JsLess(config.key, a[config.key], b[config.key]) THEN 1
    ELSE IF JsLess(config.key, b[config.key], a[config.key]) THEN -1
    ELSE 0

\* The comparator of result.sort.
CompareTransactions(config, a, b) ==
    LET aValue == a[config.key]
        bValue == b[config.key]
    IN  IF JsLess(config.key, aValue, bValue)
        THEN (IF config.direction = "asc" THEN -1 ELSE 1)
        ELSE IF JsLess(config.key, bValue, aValue)
        THEN (IF config.direction = "asc" THEN 1 ELSE -1)
        ELSE 0

\* No filter at all (the mutant of C8).
FilterCategoryNever(ts, selected) == ts

\* if (selectedCategory) result = result.filter(...): null and the empty
\* string are falsy.
FilterCategory(ts, selected) ==
    IF selected # Null /\ ValueOf(selected) # ""
    THEN SelectSeq(ts, LAMBDA t : t.category = ValueOf(selected))
    ELSE ts

project(ts, config, selected, engine) ==
    LET filtered == FilterCategory(ts, selected)
        cmp == [p \in Range(filtered) \X Range(filtered) |->
                  CompareTransactions(config, p[1], p[2])]
    IN  ArraySort(filtered, cmp, engine)

(***************************************************************************)
(* The state of the component after construction (the first render).       *)
(***************************************************************************)

DefaultSort == [key |-> "date", direction |-> "desc"]

InitialCategories ==
    <<"Salário", "Supermercado", "Renda", "Lazer", "Transporte", "Serviços", "Saúde">>

AppInit ==
    /\ transactions = <<>>
    /\ categories = InitialCategories
    /\ selectedCategory = Null
    /\ sortConfig = DefaultSort
    /\ editingTransaction = Null
    /\ isModalOpen = FALSE
    /\ isCategoryModalOpen = FALSE
    /\ selectedIncomeFile = Null
    /\ selectedExpenseFile = Null
    /\ isImporting = FALSE
    /\ importTask = Null
    /\ alerted = Null
    /\ insights = Null
    /\ loadingInsights = FALSE
    /\ insightTask = Null
    /\ importedSince = FALSE
    /\ effectPending = TRUE
    /\ stats \in {computeStats(<<>>, engine) : engine \in Engines}
    /\ sortedAndFilteredTransactions \in
          {project(<<>>, DefaultSort, Null, engine) : engine \in Engines}

(***************************************************************************)
(* The component: one action per event handler.  Every handler ends with   *)
(* the render its state updates cause, in which the two useMemo values are *)
(* recomputed when one of their dependencies changed.  The effect on       *)
(* [transactions] runs after that render and before the next event.  The   *)
(* two modals are overlays on the page: they take the pointer, and the     *)
(* buttons of the page under them keep the keyboard.                       *)
(***************************************************************************)

\* The longest list a form submission extends.
MaxTx == 2

\* The longest array of records in a selected file.
MaxFileLen == 2

\* Math.random().toString(36).substr(2, 9): two of the ids it can return.
IdPool == {"id1", "id2"}

\* new Date().toISOString().split('T')[0]
Today == "2024-02-01"

\* What the user enters in the transaction form; the category is one of the
\* options of the select, which are the categories.
FormInputs ==
    { [type |-> EXPENSE, category |-> "Lazer", amount |-> 2,
       date |-> "2024-01-02", description |-> "coffee"],
      [type |-> INCOME, category |-> "Food", amount |-> -1,
       date |-> "2024-01-01", description |-> ""] }

\* The column headers the user clicks, of the four that call handleSort.
SortColumns == {"date", "amount"}

\* What the user types as a new category, with its String.prototype.trim.
Trim == ("Food" :> "Food") @@ (" Food " :> "Food") @@ ("  " :> "") @@ ("Lazer" :> "Lazer")

\* The categories whose delete button the user presses.
DeletedCategories == {"Food"}

\* A field of a raw JSON record that the file does not give.
JsNaN == [kind |-> "NaN", num |-> 0, str |-> ""]

\* parseFloat of a string.
ParseFloatString == ("abc" :> JsNaN) @@ ("7" :> JsNumber(7)) @@ ("-5" :> JsNumber(-5))

\* parseFloat(item.amount)
ParseFloat(v) ==
    CASE v.kind = "number" -> v
      [] v.kind = "string" -> ParseFloatString[v.str]
      [] OTHER -> JsNaN

\* item.field || fallback, for a field that is a string when present.
OrDefault(v, fallback) == IF Truthy(v) THEN v.str ELSE fallback

\* The files the user can select.  A file is JSON text that parses to an
\* array or to a single object, text that does not parse, or a file the
\* FileReader cannot read.
RawItem(category, amount, date, description) ==
    [category |-> category, amount |-> amount, date |-> date, description |-> description]
IncomeFiles ==
    { [name |-> "income.json", kind |-> "object",
       items |-> <<RawItem(JsString("Renda"), JsString("7"), JsString("2024-01-01"), Undefined)>>] }
ExpenseFiles ==
    { [name |-> "expenses.json", kind |-> "array",
       items |-> <<RawItem(Undefined, JsNumber(-5), Undefined, JsString("Zoo"))>>],
      [name |-> "broken.json", kind |-> "invalid", items |-> <<>>] }

\* A normalisation that keeps the type a record declares (the mutant of C14).
ImportedTransactionDeclaredType(item, type, id) ==
    [id |-> id,
     type |-> OrDefault(item.type, type),
     category |-> OrDefault(item.category, "Outros"),
     amount |-> OrZero(ParseFloat(item.amount)).num,
     date |-> OrDefault(item.date, Today),
     description |-> OrDefault(item.description, "")]

\* The record readFileAsTransactions makes of one raw record.
ImportedTransaction(item, type, id) ==
    [id |-> id,
     type |-> type,
     category |-> OrDefault(item.category, "Outros"),
     amount |-> OrZero(ParseFloat(item.amount)).num,
     date |-> OrDefault(item.date, Today),
     description |-> OrDefault(item.description, "")]

\* data.map(...) of readFileAsTransactions, with the ids Math.random gave.
ImportedTransactions(file, type, ids) ==
    [i \in 1..Len(file.items) |-> ImportedTransaction(file.items[i], type, ids[i])]

\* No removal of duplicates (the mutant of C19).
UniqueKeepAll(seq, seen) == seq

\* Array.from(new Set(seq)): the first occurrence of each element, in order.
RECURSIVE Unique(_, _)
Unique(seq, seen) ==
    IF seq = <<>> THEN <<>>
    ELSE IF Head(seq) \in seen THEN Unique(Tail(seq), seen)
    ELSE <<Head(seq)>> \o Unique(Tail(seq), seen \cup {Head(seq)})

\* The default comparator of sort(): strings by their code units.
CompareDefault(x, y) ==
    IF SeqLess(CodeUnits[x], CodeUnits[y]) THEN -1
    ELSE IF SeqLess(CodeUnits[y], CodeUnits[x]) THEN 1
    ELSE 0

\* array.sort() of strings
SortStrings(seq, engine) ==
    ArraySort(seq, [p \in Range(seq) \X Range(seq) |-> CompareDefault(p[1], p[2])],
              engine)

CategoriesOf(ts) == [i \in 1..Len(ts) |-> ts[i].category]

\* The dependency lists of the two useMemo calls.
StatsDepsChanged == transactions' # transactions

\* A dependency list without selectedCategory (the mutant of C7).
TableDepsChangedWithoutFilter ==
    transactions' # transactions \/ sortConfig' # sortConfig

TableDepsChanged ==
    \/ transactions' # transactions
    \/ sortConfig' # sortConfig
    \/ selectedCategory' # selectedCategory

\* The render after a handler: each memoized value is recomputed when a
\* dependency changed and kept otherwise, by the engine the build runs on.
Render ==
    \E view \in
          {[stats |-> IF StatsDepsChanged THEN computeStats(transactions', engine)
                      ELSE stats,
            table |-> IF TableDepsChanged
                      THEN project(transactions', sortConfig', selectedCategory',
                                   engine)
                      ELSE sortedAndFilteredTransactions] : engine \in Engines} :
       /\ stats' = view.stats
       /\ sortedAndFilteredTransactions' = view.table

\* The component that runs: App of src/App.tsx, or the App of the variant
\* src/unnamed/part_002, which shares the effect, the transaction handlers
\* and the two memos with it and manages categories differently.
Builds == {"app", "part_002"}

\* A handler runs in a settled render.  The two modals are overlays: the
\* buttons of the page stay mounted under them and are reached by keyboard.
Ready == pc \in Builds /\ ~effectPending

\* The column headers, the pie sectors and the two file zones are elements
\* without focus (th, svg path, div): they take pointer clicks only, and the
\* overlay of an open modal (fixed inset-0) takes those instead.
PageReady == Ready /\ ~isModalOpen /\ ~isCategoryModalOpen

\* alert(...) of the catch block of handleExecuteImport
ImportErrorText == "Erro ao processar JSON."

importVars == <<selectedIncomeFile, selectedExpenseFile, isImporting, importTask, alerted>>

\* useEffect(() => setCategories(prev => [...new Set([...prev, ...unique])].sort()),
\* [transactions])
CategoriesEffect ==
    /\ pc \in Builds
    /\ effectPending
    /\ categories' \in
          {SortStrings(Unique(categories \o Unique(CategoriesOf(transactions), {}), {}),
                       engine) : engine \in Engines}
    /\ effectPending' = FALSE
    /\ UNCHANGED <<transactions, selectedCategory, sortConfig, editingTransaction,
                   isModalOpen, isCategoryModalOpen, importVars, callVars>>
    /\ UNCHANGED insightVars
    /\ Render

\* The "Lancamento" button: the form opens in create mode.
OpenNewTransaction ==
    /\ Ready
    /\ editingTransaction' = Null
    /\ isModalOpen' = TRUE
    /\ UNCHANGED <<transactions, categories, selectedCategory, sortConfig,
                   isCategoryModalOpen, importVars, effectPending, callVars>>
    /\ UNCHANGED insightVars
    /\ Render

handleEditClick(t) ==
    /\ Ready
    /\ editingTransaction' = Some(t)
    /\ isModalOpen' = TRUE
    /\ UNCHANGED <<transactions, categories, selectedCategory, sortConfig,
                   isCategoryModalOpen, importVars, effectPending, callVars>>
    /\ UNCHANGED insightVars
    /\ Render

\* The form's Cancelar and X buttons.
CloseModal ==
    /\ Ready
    /\ isModalOpen
    /\ isModalOpen' = FALSE
    /\ editingTransaction' = Null
    /\ UNCHANGED <<transactions, categories, selectedCategory, sortConfig,
                   isCategoryModalOpen, importVars, effectPending, callVars>>
    /\ UNCHANGED insightVars
    /\ Render

\* The options of the form's category select: the categories, and in the
\* variant one more option, "Other", that need not be a category.
CategoryOptions ==
    IF pc = "part_002" THEN Range(categories) \cup {"Other"} ELSE Range(categories)

\* A submission that puts a new record at the end of the list (the mutant
\* of C18).
saveTransactionAtEnd(form, newId) ==
    /\ Ready
    /\ isModalOpen
    /\ form.category \in CategoryOptions
    /\ editingTransaction = Null => Len(transactions) < MaxTx
    /\ LET updated ==
              [id |-> IF editingTransaction # Null
                      THEN ValueOf(editingTransaction).id ELSE newId,
               type |-> form.type,
               category |-> form.category,
               amount |-> form.amount,
               date |-> form.date,
               description |-> form.description]
       IN  transactions' =
              IF editingTransaction # Null
              THEN [i \in 1..Len(transactions) |->
                      IF transactions[i].id = updated.id THEN updated
                      ELSE transactions[i]]
              ELSE transactions \o <<updated>>
    /\ isModalOpen' = FALSE
    /\ editingTransaction' = Null
    /\ effectPending' = TRUE
    /\ UNCHANGED <<categories, selectedCategory, sortConfig, isCategoryModalOpen,
                   importVars, callVars>>
    /\ UNCHANGED insightVars
    /\ Render

\* The form is submitted with the fields form; newId is what Math.random
\* returns (used in create mode only).
saveTransaction(form, newId) ==
    /\ Ready
    /\ isModalOpen
    /\ form.category \in CategoryOptions
    /\ editingTransaction = Null => Len(transactions) < MaxTx
    /\ LET updated ==
              [id |-> IF editingTransaction # Null
                      THEN ValueOf(editingTransaction).id ELSE newId,
               type |-> form.type,
               category |-> form.category,
               amount |-> form.amount,
               date |-> form.date,
               description |-> form.description]
       IN  transactions' =
              IF editingTransaction # Null
              THEN [i \in 1..Len(transactions) |->
                      IF transactions[i].id = updated.id THEN updated
                      ELSE transactions[i]]
              ELSE <<updated>> \o transactions
    /\ isModalOpen' = FALSE
    /\ editingTransaction' = Null
    /\ effectPending' = TRUE
    /\ UNCHANGED <<categories, selectedCategory, sortConfig, isCategoryModalOpen,
                   importVars, callVars>>
    /\ UNCHANGED insightVars
    /\ Render

deleteTransaction(id) ==
    /\ Ready
    /\ transactions' = SelectSeq(transactions, LAMBDA t : t.id # id)
    /\ effectPending' = TRUE
    /\ UNCHANGED <<categories, selectedCategory, sortConfig, editingTransaction,
                   isModalOpen, isCategoryModalOpen, importVars, callVars>>
    /\ UNCHANGED insightVars
    /\ Render

\* A handleSort that never toggles: every click sorts ascending.
handleSortAlwaysAsc(key) ==
    /\ PageReady
    /\ sortConfig' = [key |-> key, direction |-> "asc"]
    /\ UNCHANGED <<transactions, categories, selectedCategory, editingTransaction,
                   isModalOpen, isCategoryModalOpen, importVars, effectPending,
                   callVars>>
    /\ UNCHANGED insightVars
    /\ Render

handleSort(key) ==
    /\ PageReady
    /\ sortConfig' =
          [key |-> key,
           direction |-> IF sortConfig.key = key /\ sortConfig.direction = "asc"
                         THEN "desc" ELSE "asc"]
    /\ UNCHANGED <<transactions, categories, selectedCategory, editingTransaction,
                   isModalOpen, isCategoryModalOpen, importVars, effectPending,
                   callVars>>
    /\ UNCHANGED insightVars
    /\ Render

\* A click on the pie sector of the entry called name.
PieClick(name) ==
    /\ PageReady
    /\ selectedCategory' = IF selectedCategory = Some(name) THEN Null ELSE Some(name)
    /\ UNCHANGED <<transactions, categories, sortConfig, editingTransaction,
                   isModalOpen, isCategoryModalOpen, importVars, effectPending,
                   callVars>>
    /\ UNCHANGED insightVars
    /\ Render

\* The "Filtrado: ..." button.
ClearFilter ==
    /\ Ready
    /\ selectedCategory # Null
    /\ ValueOf(selectedCategory) # ""
    /\ selectedCategory' = Null
    /\ UNCHANGED <<transactions, categories, sortConfig, editingTransaction,
                   isModalOpen, isCategoryModalOpen, importVars, effectPending,
                   callVars>>
    /\ UNCHANGED insightVars
    /\ Render

OpenCategoryModal ==
    /\ Ready
    /\ isCategoryModalOpen' = TRUE
    /\ UNCHANGED <<transactions, categories, selectedCategory, sortConfig,
                   editingTransaction, isModalOpen, importVars, effectPending,
                   callVars>>
    /\ UNCHANGED insightVars
    /\ Render

CloseCategoryModal ==
    /\ Ready
    /\ isCategoryModalOpen
    /\ isCategoryModalOpen' = FALSE
    /\ UNCHANGED <<transactions, categories, selectedCategory, sortConfig,
                   editingTransaction, isModalOpen, importVars, effectPending,
                   callVars>>
    /\ UNCHANGED insightVars
    /\ Render

\* newCategoryName holds what the user typed.
handleAddCategory(newCategoryName) ==
    /\ Ready
    /\ isCategoryModalOpen
    /\ LET trimmed == Trim[newCategoryName]
       IN  /\ trimmed # ""
           /\ trimmed \notin Range(categories)
           /\ categories' \in
                 {SortStrings(Append(categories, trimmed), engine) : engine \in Engines}
    /\ UNCHANGED <<transactions, selectedCategory, sortConfig, editingTransaction,
                   isModalOpen, isCategoryModalOpen, importVars, effectPending,
                   callVars>>
    /\ UNCHANGED insightVars
    /\ Render

handleDeleteCategory(categoryToDelete) ==
    /\ Ready
    /\ isCategoryModalOpen
    /\ categories' = SelectSeq(categories, LAMBDA cat : cat # categoryToDelete)
    /\ UNCHANGED <<transactions, selectedCategory, sortConfig, editingTransaction,
                   isModalOpen, isCategoryModalOpen, importVars, effectPending,
                   callVars>>
    /\ UNCHANGED insightVars
    /\ Render

\* onChange of the two file inputs, when the user picks a file.
SelectIncomeFile(file) ==
    /\ PageReady
    /\ selectedIncomeFile' = file
    /\ UNCHANGED <<transactions, categories, selectedCategory, sortConfig,
                   editingTransaction, isModalOpen, isCategoryModalOpen,
                   selectedExpenseFile, isImporting, importTask, alerted,
                   effectPending, callVars>>
    /\ UNCHANGED insightVars
    /\ Render

SelectExpenseFile(file) ==
    /\ PageReady
    /\ selectedExpenseFile' = file
    /\ UNCHANGED <<transactions, categories, selectedCategory, sortConfig,
                   editingTransaction, isModalOpen, isCategoryModalOpen,
                   selectedIncomeFile, isImporting, importTask, alerted,
                   effectPending, callVars>>
    /\ UNCHANGED insightVars
    /\ Render

\* handleExecuteImport up to its first await: the files are those selected
\* now, and the first of them is being read.
handleExecuteImport ==
    /\ Ready
    /\ ~isImporting
    /\ selectedIncomeFile # Null \/ selectedExpenseFile # Null
    /\ isImporting' = TRUE
    /\ alerted' = Null
    /\ importTask' =
          Some([reading |-> IF selectedIncomeFile # Null THEN "income" ELSE "expense",
                incomeFile |-> selectedIncomeFile,
                expenseFile |-> selectedExpenseFile,
                newTransactions |-> <<>>])
    /\ UNCHANGED <<transactions, categories, selectedCategory, sortConfig,
                   editingTransaction, isModalOpen, isCategoryModalOpen,
                   selectedIncomeFile, selectedExpenseFile, effectPending, callVars>>
    /\ UNCHANGED insightVars
    /\ Render

\* An import that stores the records of each file as soon as the file is
\* read (the mutant of C15).
FileLoadedIncremental(ids) ==
    /\ Ready
    /\ importTask # Null
    /\ LET task == ValueOf(importTask)
           type == IF task.reading = "income" THEN INCOME ELSE EXPENSE
           file == IF task.reading = "income"
                   THEN ValueOf(task.incomeFile) ELSE ValueOf(task.expenseFile)
           newTransactions ==
               task.newTransactions \o ImportedTransactions(file, type, ids)
       IN  /\ file.kind # "unreadable"
           /\ ids \in [1..Len(file.items) -> IdPool]
           /\ IF file.kind = "invalid"
              THEN /\ alerted' = Some(ImportErrorText)
                   /\ isImporting' = FALSE
                   /\ importTask' = Null
                   /\ UNCHANGED <<transactions, selectedIncomeFile,
                                  selectedExpenseFile, effectPending, insights,
                                  importedSince>>
              ELSE IF task.reading = "income" /\ task.expenseFile # Null
              THEN /\ importTask' =
                         Some([task EXCEPT !.reading = "expense",
                                           !.newTransactions = newTransactions])
                   /\ transactions' = newTransactions
                   /\ effectPending' = TRUE
                   /\ UNCHANGED <<selectedIncomeFile, selectedExpenseFile,
                                  isImporting, alerted, insights, importedSince>>
              ELSE /\ transactions' = newTransactions
                   /\ selectedIncomeFile' = Null
                   /\ selectedExpenseFile' = Null
                   /\ isImporting' = FALSE
                   /\ importTask' = Null
                   /\ insights' = Null
                   /\ importedSince' = (importedSince \/ insightTask # Null)
                   /\ effectPending' = TRUE
                   /\ UNCHANGED alerted
    /\ UNCHANGED <<categories, selectedCategory, sortConfig, editingTransaction,
                   isModalOpen, isCategoryModalOpen, callVars>>
    /\ UNCHANGED <<loadingInsights, insightTask>>
    /\ Render

\* reader.onload of the file being read, and handleExecuteImport from that
\* await to the next one or to its end.  ids are what Math.random returns for
\* the records of the file.  A file that cannot be read never calls onload.
FileLoaded(ids) ==
    /\ Ready
    /\ importTask # Null
    /\ LET task == ValueOf(importTask)
           type == IF task.reading = "income" THEN INCOME ELSE EXPENSE
           file == IF task.reading = "income"
                   THEN ValueOf(task.incomeFile) ELSE ValueOf(task.expenseFile)
           newTransactions ==
               task.newTransactions \o ImportedTransactions(file, type, ids)
       IN  /\ file.kind # "unreadable"
           /\ ids \in [1..Len(file.items) -> IdPool]
           /\ IF file.kind = "invalid"
              THEN \* JSON.parse throws: catch, alert, finally
                   /\ alerted' = Some(ImportErrorText)
                   /\ isImporting' = FALSE
                   /\ importTask' = Null
                   /\ UNCHANGED <<transactions, selectedIncomeFile,
                                  selectedExpenseFile, effectPending, insights,
                                  importedSince>>
              ELSE IF task.reading = "income" /\ task.expenseFile # Null
              THEN \* the expense file is read next
                   /\ importTask' =
                         Some([task EXCEPT !.reading = "expense",
                                           !.newTransactions = newTransactions])
                   /\ UNCHANGED <<transactions, selectedIncomeFile,
                                  selectedExpenseFile, isImporting, alerted,
                                  effectPending, insights, importedSince>>
              ELSE \* setTransactions(newTransactions), the files are cleared
                   /\ transactions' = newTransactions
                   /\ selectedIncomeFile' = Null
                   /\ selectedExpenseFile' = Null
                   /\ isImporting' = FALSE
                   /\ importTask' = Null
                   /\ insights' = Null
                   /\ importedSince' = (importedSince \/ insightTask # Null)
                   /\ effectPending' = TRUE
                   /\ UNCHANGED alerted
    /\ UNCHANGED <<categories, selectedCategory, sortConfig, editingTransaction,
                   isModalOpen, isCategoryModalOpen, callVars>>
    /\ UNCHANGED <<loadingInsights, insightTask>>
    /\ Render

\* The sectors of the pie: the entries with a positive value.
PieSectors ==
    {stats.expenseByCategory[i].name : i \in
        {j \in 1..Len(stats.expenseByCategory) :
            /\ IsNumber(stats.expenseByCategory[j].value)
            /\ stats.expenseByCategory[j].value.num > 0}}

Init ==
    /\ AppInit
    /\ call = [transactions |-> <<>>, sortConfig |-> DefaultSort,
               selectedCategory |-> Null]
    /\ result = <<>>
    /\ pc = "app"

Next ==
    \/ CategoriesEffect
    \/ OpenNewTransaction
    \/ \E t \in Range(sortedAndFilteredTransactions) : handleEditClick(t)
    \/ CloseModal
    \/ \E form \in FormInputs, newId \in IdPool : saveTransaction(form, newId)
    \/ \E t \in Range(sortedAndFilteredTransactions) : deleteTransaction(t.id)
    \/ \E key \in SortColumns : handleSort(key)
    \/ \E name \in PieSectors : PieClick(name)
    \/ ClearFilter
    \/ OpenCategoryModal
    \/ CloseCategoryModal
    \/ \E newCategoryName \in DOMAIN Trim : handleAddCategory(newCategoryName)
    \/ \E cat \in Range(categories) \cap DeletedCategories : handleDeleteCategory(cat)
    \/ \E file \in IncomeFiles : SelectIncomeFile(Some(file))
    \/ \E file \in ExpenseFiles : SelectExpenseFile(Some(file))
    \/ handleExecuteImport
    \/ \E ids \in UNION {[1..n -> IdPool] : n \in 0..MaxFileLen} : FileLoaded(ids)

Spec == Init /\ [][Next]_vars

(***************************************************************************)
(* Direct calls of the two pure functions on bounded inputs.               *)
(***************************************************************************)

\* The longest freely chosen transaction list given to stats, and to project.
MaxLen == 2
MaxRows == 3

IdAt(i) == "t" \o NatToString(i)

\* A transaction whose id is its position in the list.
Rows(fields) ==
    [i \in 1..Len(fields) |->
        [id |-> IdAt(i), type |-> fields[i].type, category |-> fields[i].category,
         amount |-> fields[i].amount, date |-> fields[i].date,
         description |-> fields[i].description]]

SeqsUpTo(S, n) == UNION {[1..k -> S] : k \in 0..n}

\* Inputs of stats: every short list over labels that differ in case, are
\* digit strings or name a property of Object.prototype ...
StatsCategories == {"Food", "food", "2", "10", "constructor", "__proto__"}
StatsAmounts == {-1, 0, 1, 2}
StatsFields ==
    [type : TransactionType, category : StatsCategories, amount : StatsAmounts,
     date : {"2024-01-01"}, description : {""}]

\* ... and long lists of up to twelve expense categories, in this order of
\* first occurrence, whose amounts follow a pattern, with one free record
\* more at the end.
ManyCategories == <<"Rent", "Food", "10", "Fuel", "2", "Gym", "Pets", "food",
                    "Books", "Taxes", "Gifts", "Travel">>
Patterns == {"flat", "up", "down", "saw"}
PatternAmount(pattern, i) ==
    CASE pattern = "flat" -> 5
      [] pattern = "up" -> i
      [] pattern = "down" -> Len(ManyCategories) + 1 - i
      [] pattern = "saw" -> (i % 3) + 1
ManyFields(n, pattern) ==
    [i \in 1..n |->
        [type |-> EXPENSE, category |-> ManyCategories[i],
         amount |-> PatternAmount(pattern, i),
         date |-> "2024-01-01", description |-> ""]]

StatsInputs ==
    {Rows(f) : f \in SeqsUpTo(StatsFields, MaxLen)}
    \cup {Rows(ManyFields(n, p) \o tail) :
            n \in 4..Len(ManyCategories), p \in Patterns,
            tail \in SeqsUpTo(StatsFields, 1)}

\* Inputs of project: lists over six records that tie on some keys and differ
\* on others, every sort key and direction, and a filter that is absent, a
\* label of the list or a label of no record.
ProjectFields ==
    { [type |-> EXPENSE, category |-> "Food", amount |-> 2,
       date |-> "2024-01-02", description |-> "coffee"],
      [type |-> EXPENSE, category |-> "Food", amount |-> 10,
       date |-> "2024-01-01", description |-> "Zoo"],
      [type |-> INCOME, category |-> "Rent", amount |-> 2,
       date |-> "2024-01-02", description |-> ""],
      [type |-> EXPENSE, category |-> "food", amount |-> -1,
       date |-> "2023-12-31", description |-> "coffee"],
      [type |-> EXPENSE, category |-> "10", amount |-> 10,
       date |-> "2024-02-01", description |-> "Zoo"],
      [type |-> INCOME, category |-> "2", amount |-> 0,
       date |-> "2024-01-01", description |-> ""] }
ProjectFilters == {Null, Some("Food"), Some("food"), Some("10"), Some("Gym")}
ProjectInputs ==
    [transactions : {Rows(f) : f \in SeqsUpTo(ProjectFields, MaxRows)},
     sortConfig : [key : SortKeys, direction : SortDirections],
     selectedCategory : ProjectFilters,
     engine : Engines]

\* stats is evaluated on call.transactions.
CallStats ==
    /\ pc = "call"
    /\ result' = computeStats(call.transactions, call.engine)
    /\ pc' = "done"
    /\ UNCHANGED <<call, appVars>>

InitStats ==
    /\ AppInit
    /\ call \in [transactions : StatsInputs, sortConfig : {DefaultSort},
                 selectedCategory : {Null}, engine : Engines]
    /\ result = <<>>
    /\ pc = "call"

NextStats == CallStats

SpecStats == InitStats /\ [][NextStats]_vars

\* sortedAndFilteredTransactions is evaluated on the arguments in call.
CallProject ==
    /\ pc = "call"
    /\ result' = project(call.transactions, call.sortConfig, call.selectedCategory,
                         call.engine)
    /\ pc' = "done"
    /\ UNCHANGED <<call, appVars>>

InitProject ==
    /\ AppInit
    /\ call \in ProjectInputs
    /\ result = <<>>
    /\ pc = "call"

NextProject == CallProject

SpecProject == InitProject /\ [][NextProject]_vars

(***************************************************************************)
(* The two memoized computations evaluated on arrays that can be shared.   *)
(* An evaluation works on named arrays: "transactions" is the array the    *)
(* state holds, "copy" the array [...transactions] makes, "filtered" the   *)
(* array filter returns.  sort orders the array it is called on, in place. *)
(***************************************************************************)

\* result = transactions: no copy, result is the state's array itself.
SpreadAlias(arrays, name) == [arrays |-> arrays, ref |-> name]

\* result = [...transactions]
Spread(arrays, name) ==
    [arrays |-> arrays @@ ("copy" :> arrays[name]), ref |-> "copy"]

\* One evaluation of sortedAndFilteredTransactions: what it returns, and
\* what the state's array holds afterwards.
EvaluateProject(ts, config, selected, engine) ==
    LET spread == Spread(("transactions" :> ts), "transactions")
        filtered ==
            IF selected # Null /\ ValueOf(selected) # ""
            THEN [arrays |-> spread.arrays @@
                     ("filtered" :> FilterCategory(spread.arrays[spread.ref], selected)),
                  ref |-> "filtered"]
            ELSE spread
        a == filtered.arrays[filtered.ref]
        cmp == [p \in Range(a) \X Range(a) |-> CompareTransactions(config, p[1], p[2])]
        sorted == [filtered.arrays EXCEPT ![filtered.ref] = ArraySort(a, cmp, engine)]
    IN  [transactions |-> sorted["transactions"], result |-> sorted[filtered.ref]]

\* A render in which both useMemo callbacks run: the table first, then the
\* stats, on the array the state holds.
Evaluate ==
    /\ pc \in {"call", "once"}
    /\ LET run == EvaluateProject(call.transactions, call.sortConfig,
                                  call.selectedCategory, call.engine)
       IN  /\ result' = [table |-> run.result,
                         stats |-> computeStats(run.transactions, call.engine)]
           /\ call' = [call EXCEPT !.transactions = run.transactions]
    /\ pc' = IF pc = "call" THEN "once" ELSE "twice"
    /\ UNCHANGED appVars

InitPure ==
    /\ AppInit
    /\ call \in ProjectInputs
    /\ result = <<>>
    /\ pc = "call"

NextPure == Evaluate

SpecPure == InitPure /\ [][NextPure]_vars

(***************************************************************************)
(* Direct calls of readFileAsTransactions on bounded files.                *)
(***************************************************************************)

\* The amount of a raw record: absent, a number, or a string.
RawAmounts ==
    {Undefined, JsNumber(-5), JsNumber(0), JsNumber(2),
     JsString("7"), JsString("-5"), JsString("abc")}

\* The other fields of a raw record, type being the type the record itself
\* declares: all given, only the date given, none given, and empty strings.
RawShapes ==
    { [category |-> JsString("Renda"), date |-> JsString("2024-01-01"),
       description |-> JsString("Zoo"), type |-> JsString(INCOME)],
      [category |-> Undefined, date |-> JsString("2024-02-01"),
       description |-> Undefined, type |-> JsString(EXPENSE)],
      [category |-> Undefined, date |-> Undefined,
       description |-> Undefined, type |-> Undefined],
      [category |-> JsString(""), date |-> JsString(""),
       description |-> JsString(""), type |-> Undefined] }

RawRecords ==
    {[category |-> shape.category, amount |-> amount, date |-> shape.date,
      description |-> shape.description, type |-> shape.type] :
        shape \in RawShapes, amount \in RawAmounts}

ImportFiles ==
    {[name |-> "import.json", kind |-> "array", items |-> items] :
        items \in SeqsUpTo(RawRecords, MaxFileLen)}
    \cup {[name |-> "import.json", kind |-> "object", items |-> <<item>>] :
        item \in RawRecords}
    \cup {[name |-> "import.json", kind |-> "invalid", items |-> <<>>],
          [name |-> "import.json", kind |-> "unreadable", items |-> <<>>]}

ImportInputs ==
    UNION {[file : {file}, type : TransactionType,
            ids : [1..Len(file.items) -> IdPool]] : file \in ImportFiles}

\* The promise readFileAsTransactions returns, once settled: JSON.parse
\* throws on text that is no JSON and the promise is rejected; otherwise it
\* is resolved with the normalised records.
readFileAsTransactions(file, type, ids) ==
    IF file.kind = "invalid"
    THEN [settled |-> "rejected", value |-> <<>>]
    ELSE [settled |-> "resolved", value |-> ImportedTransactions(file, type, ids)]

\* reader.onload of the file in call; the reader of a file that cannot be
\* read never calls it.
CallImport ==
    /\ pc = "call"
    /\ call.file.kind # "unreadable"
    /\ result' = readFileAsTransactions(call.file, call.type, call.ids)
    /\ pc' = "done"
    /\ UNCHANGED <<call, appVars>>

InitImport ==
    /\ AppInit
    /\ call \in ImportInputs
    /\ result = <<>>
    /\ pc = "call"

NextImport == CallImport

SpecImport == InitImport /\ [][NextImport]_vars

(***************************************************************************)
(* getFinancialInsights: the request it sends for a list of transactions.  *)
(***************************************************************************)

\* transactions.slice(0, 50)
SummaryLimit == 50

\* array.slice(start, end): the elements at the 0-based indices from start up
\* to, and not including, end or the length of the array.
ArraySlice(seq, start, end) ==
    Slice(seq, start + 1, IF end < Len(seq) THEN end ELSE Len(seq))

\* A summary of the whole list (the mutant of C20).
SummaryOfAll(ts) ==
    [i \in 1..Len(ts) |->
        [type |-> ts[i].type, amount |-> ts[i].amount,
         category |-> ts[i].category, date |-> ts[i].date]]

\* const summary = transactions.slice(0, 50).map(t => ({type, amount, category, date}))
SummaryOf(ts) ==
    LET first == ArraySlice(ts, 0, SummaryLimit)
    IN  [i \in 1..Len(first) |->
            [type |-> first[i].type, amount |-> first[i].amount,
             category |-> first[i].category, date |-> first[i].date]]

\* JSON.stringify of an array of objects: the members of each object, name
\* and value, in the order in which the object was built.
SummaryKeys == <<"type", "amount", "category", "date">>
JsonStringify(summary) ==
    [i \in 1..Len(summary) |->
        [k \in 1..Len(SummaryKeys) |-> <<SummaryKeys[k], summary[i][SummaryKeys[k]]>>]]

\* The two services of src/: that of src/unnamed/part_000, with Portuguese
\* texts as App.tsx, and that of src/unnamed/part_001, with English texts as
\* the variant src/unnamed/part_002.
Services == {"part_000", "part_001"}
ServiceOf(build) == IF build = "part_002" THEN "part_001" ELSE "part_000"

\* The first words of the prompt.
Instructions(service) ==
    IF service = "part_001" THEN "Analyze these latest financial transactions"
    ELSE "Analise estas transações financeiras recentes"

\* The argument of ai.models.generateContent: the model and the prompt, in
\* which the only part that depends on the list is the JSON text of summary.
InsightRequest(ts, service) ==
    [model |-> "gemini-3-flash-preview",
     contents |-> [instructions |-> Instructions(service),
                   transactions |-> JsonStringify(SummaryOf(ts))]]

\* A list of n records, each with its own id and amount.
LongList(n, k) ==
    [i \in 1..n |->
        [id |-> IdAt(i),
         type |-> IF (i + k) % 2 = 0 THEN INCOME ELSE EXPENSE,
         category |-> IF (i + k) % 3 = 0 THEN "Food" ELSE "Rent",
         amount |-> i * k,
         date |-> IF i % 2 = 0 THEN "2024-01-01" ELSE "2024-01-02",
         description |-> IF i % 2 = 0 THEN "coffee" ELSE "Zoo"]]

InsightInputs ==
    {Rows(f) : f \in SeqsUpTo(ProjectFields, MaxLen)}
    \cup {LongList(n, k) : n \in (SummaryLimit - 3)..(SummaryLimit + 3), k \in 1..6}

\* getFinancialInsights(call.transactions) up to the request it sends.
CallInsights ==
    /\ pc = "call"
    /\ result' = InsightRequest(call.transactions, call.service)
    /\ pc' = "done"
    /\ UNCHANGED <<call, appVars>>

InitInsights ==
    /\ AppInit
    /\ call \in [transactions : InsightInputs, service : Services]
    /\ result = <<>>
    /\ pc = "call"

NextInsights == CallInsights

SpecInsights == InitInsights /\ [][NextInsights]_vars

(***************************************************************************)
(* getFinancialInsights: the promise it returns.  What is outside the      *)
(* function is an input: whether new GoogleGenAI(...) throws, and what     *)
(* ai.models.generateContent does with the request.                        *)
(***************************************************************************)

Constructions == {"constructed", "throws"}
Responses == {"text", "empty", "throws"}

\* The text the model generates for a request.
GeneratedText(request) ==
    [text |-> "generated", about |-> request.contents.transactions]

\* response.text || "..."
NoInsightsText(service) ==
    [text |-> IF service = "part_001" THEN "No insights available at the moment."
              ELSE "Não foi possível gerar insights no momento.",
     about |-> <<>>]

\* The string returned from the catch block.
InsightsErrorText(service) ==
    [text |-> IF service = "part_001"
              THEN "Could not generate AI insights. Check your API configuration."
              ELSE "Erro ao gerar insights de IA. Verifique sua configuração de API ou conexão.",
     about |-> <<>>]

\* What getFinancialInsights returns once generateContent has answered the
\* request: the generated text, or a fallback string when response.text is
\* empty (falsy) or when generateContent threw (catch).
ReturnedInsights(request, response, service) ==
    CASE response = "text" -> GeneratedText(request)
      [] response = "empty" -> NoInsightsText(service)
      [] OTHER -> InsightsErrorText(service)

\* The promise of getFinancialInsights once settled.  The client is
\* constructed before the try block: an exception of the constructor rejects
\* the promise of the async function.
getFinancialInsights(ts, construction, response, service) ==
    IF construction = "throws"
    THEN [settled |-> "rejected",
          value |-> [text |-> "Error: An API Key must be set", about |-> <<>>]]
    ELSE [settled |-> "resolved",
          value |-> ReturnedInsights(InsightRequest(ts, service), response, service)]

\* getFinancialInsights from its call to its await: the client is
\* constructed, the prompt is built and generateContent is called with the
\* request; the function yields and its caller holds a pending promise.  A
\* constructor that throws settles the promise at once.
CallGetFinancialInsights ==
    /\ pc = "call"
    /\ IF call.construction = "throws"
       THEN /\ result' = getFinancialInsights(call.transactions, call.construction,
                                              call.response, call.service)
            /\ pc' = "done"
       ELSE /\ result' = [settled |-> "pending",
                          value |-> InsightRequest(call.transactions, call.service)]
            /\ pc' = "awaiting"
    /\ UNCHANGED <<call, appVars>>

\* generateContent answers the request or rejects it: getFinancialInsights
\* runs from its await to its return, and its promise resolves.
ResumeGetFinancialInsights ==
    /\ pc = "awaiting"
    /\ result' = [settled |-> "resolved",
                  value |-> ReturnedInsights(result.value, call.response,
                                             call.service)]
    /\ pc' = "done"
    /\ UNCHANGED <<call, appVars>>

InitOutcome ==
    /\ AppInit
    /\ call \in [transactions : InsightInputs, construction : Constructions,
                 response : Responses, service : Services]
    /\ result = <<>>
    /\ pc = "call"

NextOutcome ==
    \/ CallGetFinancialInsights
    \/ ResumeGetFinancialInsights

SpecOutcome == InitOutcome /\ [][NextOutcome]_vars

(***************************************************************************)
(* The component with its insight panel.  generateAIInsights reads the     *)
(* transaction list and writes insights and loadingInsights; the import    *)
(* resets insights.  Sorting, filtering and the category modal neither     *)
(* read nor write the insight state and are left to Spec: here the list    *)
(* changes through the form, deletion and the import of an expense file,   *)
(* which can also be a file that the FileReader cannot read.               *)
(***************************************************************************)

\* generateAIInsights up to its await: getFinancialInsights is called with
\* the list of this render and has sent its request.  When the client's
\* constructor throws, no request is sent, the promise is rejected, the await
\* throws and the handler ends there, with loadingInsights set.
generateAIInsights(construction) ==
    /\ Ready
    /\ ~loadingInsights
    /\ transactions # <<>>
    /\ loadingInsights' = TRUE
    /\ insightTask' = IF construction = "throws" THEN Null
                      ELSE Some(InsightRequest(transactions, ServiceOf(pc)))
    /\ importedSince' = FALSE
    /\ UNCHANGED <<transactions, categories, selectedCategory, sortConfig,
                   editingTransaction, isModalOpen, isCategoryModalOpen,
                   importVars, insights, effectPending, callVars>>
    /\ Render

\* A handler that drops a text whose request is not that of the current
\* list (the mutant of C22).
InsightsSettledIfCurrent(response) ==
    /\ Ready
    /\ insightTask # Null
    /\ insights' = IF ValueOf(insightTask) = InsightRequest(transactions, ServiceOf(pc))
                   THEN Some(ReturnedInsights(ValueOf(insightTask), response,
                                              ServiceOf(pc)))
                   ELSE insights
    /\ loadingInsights' = FALSE
    /\ insightTask' = Null
    /\ UNCHANGED <<transactions, categories, selectedCategory, sortConfig,
                   editingTransaction, isModalOpen, isCategoryModalOpen,
                   importVars, importedSince, effectPending, callVars>>
    /\ Render

\* generateContent answers, the promise of getFinancialInsights resolves
\* and generateAIInsights runs from its await to its end.
InsightsSettled(response) ==
    /\ Ready
    /\ insightTask # Null
    /\ insights' = Some(ReturnedInsights(ValueOf(insightTask), response,
                                         ServiceOf(pc)))
    /\ loadingInsights' = FALSE
    /\ insightTask' = Null
    /\ UNCHANGED <<transactions, categories, selectedCategory, sortConfig,
                   editingTransaction, isModalOpen, isCategoryModalOpen,
                   importVars, importedSince, effectPending, callVars>>
    /\ Render

\* The expense files the user picks here: the two of Spec and one that
\* cannot be read.
AssistantExpenseFiles ==
    ExpenseFiles \cup
    {[name |-> "locked.json", kind |-> "unreadable", items |-> <<>>]}

NextAssistant ==
    \/ CategoriesEffect
    \/ OpenNewTransaction
    \/ \E t \in Range(sortedAndFilteredTransactions) : handleEditClick(t)
    \/ CloseModal
    \/ \E form \in FormInputs, newId \in IdPool : saveTransaction(form, newId)
    \/ \E t \in Range(sortedAndFilteredTransactions) : deleteTransaction(t.id)
    \/ \E file \in AssistantExpenseFiles : SelectExpenseFile(Some(file))
    \/ handleExecuteImport
    \/ \E ids \in UNION {[1..n -> IdPool] : n \in 0..MaxFileLen} : FileLoaded(ids)
    \/ \E construction \in Constructions : generateAIInsights(construction)
    \/ \E response \in Responses : InsightsSettled(response)

SpecAssistant == Init /\ [][NextAssistant]_vars

\* The two busy flags alone: the list changes only through the import.  The
\* browser runs every pending effect (no effect stays pending for ever),
\* every load event of a FileReader and every continuation of a settled
\* promise.
NextBusy ==
    \/ CategoriesEffect
    \/ \E file \in AssistantExpenseFiles : SelectExpenseFile(Some(file))
    \/ handleExecuteImport
    \/ \E ids \in UNION {[1..n -> IdPool] : n \in 0..MaxFileLen} : FileLoaded(ids)
    \/ \E construction \in Constructions : generateAIInsights(construction)
    \/ \E response \in Responses : InsightsSettled(response)

FairBusy ==
    /\ []<>(~effectPending)
    /\ WF_vars(\E ids \in UNION {[1..n -> IdPool] : n \in 0..MaxFileLen} :
                  FileLoaded(ids))
    /\ WF_vars(\E response \in Responses : InsightsSettled(response))

SpecBusy == Init /\ [][NextBusy]_vars /\ FairBusy

(***************************************************************************)
(* Category management in the two components: App.tsx, and the variant of  *)
(* src/unnamed/part_002, which reassigns on delete and can rename.         *)
(***************************************************************************)

InitialCategories_part002 ==
    <<"Salary", "Groceries", "Rent", "Entertainment", "Transport", "Utilities",
      "Healthcare">>

\* The label the variant gives to the records of a deleted category.
Uncategorized == "Uncategorized"

\* What the user submits in the form of the variant.
FormInputs_part002 ==
    { [type |-> EXPENSE, category |-> "Groceries", amount |-> 3,
       date |-> "2024-01-02", description |-> "coffee"],
      [type |-> EXPENSE, category |-> "Rent", amount |-> 2,
       date |-> "2024-01-01", description |-> ""],
      [type |-> EXPENSE, category |-> "Other", amount |-> 3,
       date |-> "2024-01-02", description |-> "coffee"] }

FormsOf(build) == IF build = "app" THEN FormInputs ELSE FormInputs_part002

\* String.prototype.trim on what the user types in the category dialog of
\* the variant.
Trim_part002 ==
    ("Food" :> "Food") @@ (" Food " :> "Food") @@ ("  " :> "") @@ ("Rent" :> "Rent")

\* The categories whose delete button the user presses in the variant.
DeletedCategories_part002 == {"Groceries", "Rent", "Uncategorized"}

\* The rows the user edits in the variant, and what the user types there.
RenamedCategories == {"Groceries", "Rent"}
RenamedTo == {"Food", "Rent", "  "}

\* prev.map(t => t.category === from ? { ...t, category: to } : t)
Recategorise(ts, from, to) ==
    [i \in 1..Len(ts) |->
        IF ts[i].category = from THEN [ts[i] EXCEPT !.category = to] ELSE ts[i]]

\* handleAddCategory of the variant; on a name already in the list it only
\* alerts, and on a blank name it returns.
handleAddCategory_part002(newCategoryName) ==
    /\ Ready
    /\ pc = "part_002"
    /\ isCategoryModalOpen
    /\ Trim_part002[newCategoryName] # ""
    /\ Trim_part002[newCategoryName] \notin Range(categories)
    /\ categories' \in
          {SortStrings(Append(categories, Trim_part002[newCategoryName]), engine) :
              engine \in Engines}
    /\ UNCHANGED <<transactions, selectedCategory, sortConfig, editingTransaction,
                   isModalOpen, isCategoryModalOpen, importVars, effectPending,
                   callVars>>
    /\ UNCHANGED insightVars
    /\ Render

\* handleDeleteCategory of the variant; confirmed is the answer to
\* window.confirm, and nothing happens when the user declines.  The new list
\* of setTransactions is a new array: the effect runs again.
handleDeleteCategory_part002(cat, confirmed) ==
    /\ Ready
    /\ pc = "part_002"
    /\ isCategoryModalOpen
    /\ confirmed
    /\ categories' = SelectSeq(categories, LAMBDA c : c # cat)
    /\ transactions' = Recategorise(transactions, cat, Uncategorized)
    /\ effectPending' = TRUE
    /\ selectedCategory' = IF selectedCategory = Some(cat) THEN Null
                           ELSE selectedCategory
    /\ UNCHANGED <<sortConfig, editingTransaction, isModalOpen, isCategoryModalOpen,
                   importVars, callVars>>
    /\ UNCHANGED insightVars
    /\ Render

\* A handleRenameCategory that renames in the category list only: the list
\* is not sorted and the records, and so the effect, are left alone.
handleRenameCategoryUnsorted(old, current) ==
    /\ Ready
    /\ pc = "part_002"
    /\ isCategoryModalOpen
    /\ Trim_part002[current] # ""
    /\ old # current
    /\ categories' = [i \in 1..Len(categories) |->
                         IF categories[i] = old THEN current ELSE categories[i]]
    /\ transactions' = transactions
    /\ effectPending' = FALSE
    /\ selectedCategory' = IF selectedCategory = Some(old) THEN Some(current)
                           ELSE selectedCategory
    /\ UNCHANGED <<sortConfig, editingTransaction, isModalOpen, isCategoryModalOpen,
                   importVars, callVars>>
    /\ UNCHANGED insightVars
    /\ Render

\* handleRenameCategory of the variant, on editingCategoryName = {old,
\* current}: old is the row whose pencil the user pressed and current what
\* the input holds.  A blank current returns; current = old only closes the
\* input.  current is stored as typed and is not looked up in the list.
handleRenameCategory(old, current) ==
    /\ Ready
    /\ pc = "part_002"
    /\ isCategoryModalOpen
    /\ Trim_part002[current] # ""
    /\ old # current
    /\ categories' \in
          {SortStrings([i \in 1..Len(categories) |->
                           IF categories[i] = old THEN current ELSE categories[i]],
                       engine) : engine \in Engines}
    /\ transactions' = Recategorise(transactions, old, current)
    /\ effectPending' = TRUE
    /\ selectedCategory' = IF selectedCategory = Some(old) THEN Some(current)
                           ELSE selectedCategory
    /\ UNCHANGED <<sortConfig, editingTransaction, isModalOpen, isCategoryModalOpen,
                   importVars, callVars>>
    /\ UNCHANGED insightVars
    /\ Render

\* The record readFileAsTransactions of the variant makes of one raw record:
\* a record without category gets 'Salary' in the income file and 'General'
\* in the expense file.
ImportedTransaction_part002(item, type, id) ==
    [id |-> id,
     type |-> type,
     category |-> OrDefault(item.category,
                            IF type = INCOME THEN "Salary" ELSE "General"),
     amount |-> OrZero(ParseFloat(item.amount)).num,
     date |-> OrDefault(item.date, Today),
     description |-> OrDefault(item.description, "")]

ImportedTransactions_part002(file, type, ids) ==
    [i \in 1..Len(file.items) |->
        ImportedTransaction_part002(file.items[i], type, ids[i])]

\* The two alerts of handleExecuteImport of the variant.
ImportSuccessText_part002 ==
    "Data imported successfully! Existing records were replaced."
ImportErrorText_part002 == "Error processing JSON files. Please check the format."

\* The files the user picks in the variant: an income record and an expense
\* record without category, text that does not parse and a file that cannot
\* be read.
IncomeFiles_part002 ==
    { [name |-> "income.json", kind |-> "array",
       items |-> <<RawItem(Undefined, JsString("7"), JsString("2024-01-01"), Undefined)>>] }
ExpenseFiles_part002 ==
    { [name |-> "expenses.json", kind |-> "array",
       items |-> <<RawItem(Undefined, JsNumber(5), Undefined, JsString("Zoo"))>>],
      [name |-> "broken.json", kind |-> "invalid", items |-> <<>>],
      [name |-> "locked.json", kind |-> "unreadable", items |-> <<>>] }

\* reader.onload of the file being read in the variant, and its
\* handleExecuteImport from that await to the next one or to its end.  The
\* end also clears the category filter and alerts.
FileLoaded_part002(ids) ==
    /\ Ready
    /\ pc = "part_002"
    /\ importTask # Null
    /\ LET task == ValueOf(importTask)
           type == IF task.reading = "income" THEN INCOME ELSE EXPENSE
           file == IF task.reading = "income"
                   THEN ValueOf(task.incomeFile) ELSE ValueOf(task.expenseFile)
           newTransactions ==
               task.newTransactions \o ImportedTransactions_part002(file, type, ids)
       IN  /\ file.kind # "unreadable"
           /\ ids \in [1..Len(file.items) -> IdPool]
           /\ IF file.kind = "invalid"
              THEN \* JSON.parse throws: reject, catch, alert, finally
                   /\ alerted' = Some(ImportErrorText_part002)
                   /\ isImporting' = FALSE
                   /\ importTask' = Null
                   /\ UNCHANGED <<transactions, selectedCategory, selectedIncomeFile,
                                  selectedExpenseFile, effectPending, insights,
                                  importedSince>>
              ELSE IF task.reading = "income" /\ task.expenseFile # Null
              THEN \* the expense file is read next
                   /\ importTask' =
                         Some([task EXCEPT !.reading = "expense",
                                           !.newTransactions = newTransactions])
                   /\ UNCHANGED <<transactions, selectedCategory, selectedIncomeFile,
                                  selectedExpenseFile, isImporting, alerted,
                                  effectPending, insights, importedSince>>
              ELSE /\ transactions' = newTransactions
                   /\ selectedIncomeFile' = Null
                   /\ selectedExpenseFile' = Null
                   /\ selectedCategory' = Null
                   /\ isImporting' = FALSE
                   /\ importTask' = Null
                   /\ insights' = Null
                   /\ importedSince' = (importedSince \/ insightTask # Null)
                   /\ alerted' = Some(ImportSuccessText_part002)
                   /\ effectPending' = TRUE
    /\ UNCHANGED <<categories, sortConfig, editingTransaction, isModalOpen,
                   isCategoryModalOpen, callVars>>
    /\ UNCHANGED <<loadingInsights, insightTask>>
    /\ Render

\* reader.onerror of the variant: the promise is rejected, and
\* handleExecuteImport alerts in its catch block and ends.
FileReadError_part002 ==
    /\ Ready
    /\ pc = "part_002"
    /\ importTask # Null
    /\ LET task == ValueOf(importTask)
           file == IF task.reading = "income"
                   THEN ValueOf(task.incomeFile) ELSE ValueOf(task.expenseFile)
       IN  file.kind = "unreadable"
    /\ alerted' = Some(ImportErrorText_part002)
    /\ isImporting' = FALSE
    /\ importTask' = Null
    /\ UNCHANGED <<transactions, categories, selectedCategory, sortConfig,
                   editingTransaction, isModalOpen, isCategoryModalOpen,
                   selectedIncomeFile, selectedExpenseFile, effectPending, callVars>>
    /\ UNCHANGED insightVars
    /\ Render

InitCategories ==
    /\ pc \in Builds
    /\ transactions = <<>>
    /\ categories = IF pc = "app" THEN InitialCategories
                    ELSE InitialCategories_part002
    /\ selectedCategory = Null
    /\ sortConfig = DefaultSort
    /\ editingTransaction = Null
    /\ isModalOpen = FALSE
    /\ isCategoryModalOpen = FALSE
    /\ selectedIncomeFile = Null
    /\ selectedExpenseFile = Null
    /\ isImporting = FALSE
    /\ importTask = Null
    /\ alerted = Null
    /\ insights = Null
    /\ loadingInsights = FALSE
    /\ insightTask = Null
    /\ importedSince = FALSE
    /\ effectPending = TRUE
    /\ stats \in {computeStats(<<>>, engine) : engine \in Engines}
    /\ sortedAndFilteredTransactions \in
          {project(<<>>, DefaultSort, Null, engine) : engine \in Engines}
    /\ call = [transactions |-> <<>>, sortConfig |-> DefaultSort,
               selectedCategory |-> Null]
    /\ result = <<>>

NextCategories ==
    \/ CategoriesEffect
    \/ OpenNewTransaction
    \/ \E t \in Range(sortedAndFilteredTransactions) : handleEditClick(t)
    \/ CloseModal
    \/ \E form \in FormsOf(pc), newId \in IdPool : saveTransaction(form, newId)
    \/ \E t \in Range(sortedAndFilteredTransactions) : deleteTransaction(t.id)
    \/ \E name \in PieSectors : PieClick(name)
    \/ OpenCategoryModal
    \/ CloseCategoryModal
    \/ \E newCategoryName \in DOMAIN Trim :
          pc = "app" /\ handleAddCategory(newCategoryName)
    \/ \E cat \in Range(categories) \cap DeletedCategories :
          pc = "app" /\ handleDeleteCategory(cat)
    \/ \E newCategoryName \in DOMAIN Trim_part002 :
          handleAddCategory_part002(newCategoryName)
    \/ \E cat \in Range(categories) \cap DeletedCategories_part002,
          confirmed \in BOOLEAN : handleDeleteCategory_part002(cat, confirmed)
    \/ \E old \in Range(categories) \cap RenamedCategories, current \in RenamedTo :
          handleRenameCategory(old, current)
    \/ ClearFilter

SpecCategories == InitCategories /\ [][NextCategories]_vars

(***************************************************************************)
(* The page of the variant outside its two dialogs: the import, the        *)
(* insight panel, the sort and the filter.  The list changes through the   *)
(* import and deletion here; the form and the category dialog are in       *)
(* SpecCategories.  Its insight service is that of src/unnamed/part_001.   *)
(***************************************************************************)

InitVariant == InitCategories /\ pc = "part_002"

NextVariant ==
    \/ CategoriesEffect
    \/ \E t \in Range(sortedAndFilteredTransactions) : deleteTransaction(t.id)
    \/ \E key \in SortColumns : handleSort(key)
    \/ \E name \in PieSectors : PieClick(name)
    \/ ClearFilter
    \/ \E file \in IncomeFiles_part002 : SelectIncomeFile(Some(file))
    \/ \E file \in ExpenseFiles_part002 : SelectExpenseFile(Some(file))
    \/ handleExecuteImport
    \/ \E ids \in UNION {[1..n -> IdPool] : n \in 0..MaxFileLen} :
          FileLoaded_part002(ids)
    \/ FileReadError_part002
    \/ \E construction \in Constructions : generateAIInsights(construction)
    \/ \E response \in Responses : InsightsSettled(response)

SpecVariant == InitVariant /\ [][NextVariant]_vars

(***************************************************************************)
(* What the claims say of stats, stated on the input list itself.          *)
(***************************************************************************)

Indices(ts, type) == {i \in 1..Len(ts) : ts[i].type = type}

\* The sum of amount over the records at the positions in I.
RECURSIVE SumAt(_, _)
SumAt(ts, I) ==
    IF I = {} THEN 0
    ELSE LET i == CHOOSE j \in I : TRUE
         IN  ts[i].amount + SumAt(ts, I \ {i})

ExpenseLabels(ts) == {ts[i].category : i \in Indices(ts, EXPENSE)}
LabelIndices(ts, c) == {i \in Indices(ts, EXPENSE) : ts[i].category = c}
LabelSum(ts, c) == SumAt(ts, LabelIndices(ts, c))
FirstIndex(ts, c) ==
    CHOOSE i \in LabelIndices(ts, c) : \A j \in LabelIndices(ts, c) : i <= j
AllNonNegative(ts) == \A i \in 1..Len(ts) : ts[i].amount >= 0
Min(a, b) == IF a <= b THEN a ELSE b
Positions(entries, c) == {i \in 1..Len(entries) : entries[i].name = c}
Names(entries) == {entries[i].name : i \in 1..Len(entries)}

\* C1: the computed balance is totalIncome - totalExpenses, for every list
\* (it may be negative).
C1_Balance ==
    pc = "done" => result.balance = result.totalIncome - result.totalExpenses

C1_Witness ==
    /\ pc = "done"
    /\ result.totalIncome > 0
    /\ result.totalExpenses > result.totalIncome
    /\ result.balance < 0

\* C2: on a list whose amounts are all >= 0, totalIncome is the sum of amount
\* over the INCOME records and totalExpenses the sum over the EXPENSE records,
\* both are >= 0, and the empty list gives zero totals and an empty breakdown.
C2_Totals ==
    (pc = "done" /\ AllNonNegative(call.transactions)) =>
        /\ result.totalIncome = SumAt(call.transactions, Indices(call.transactions, INCOME))
        /\ result.totalExpenses = SumAt(call.transactions, Indices(call.transactions, EXPENSE))
        /\ result.totalIncome >= 0
        /\ result.totalExpenses >= 0
        /\ call.transactions = <<>> =>
               /\ result.totalIncome = 0
               /\ result.totalExpenses = 0
               /\ result.expenseByCategory = <<>>

C2_Witness ==
    /\ pc = "done"
    /\ AllNonNegative(call.transactions)
    /\ Cardinality(Indices(call.transactions, EXPENSE)) >= 2
    /\ Indices(call.transactions, INCOME) # {}
    /\ result.totalIncome > 0
    /\ result.totalExpenses > result.totalIncome

\* C3: with at most 10 distinct expense categories, expenseByCategory holds
\* exactly one entry per label carried by an EXPENSE record, for any label,
\* whose value is the numeric sum of amount over the EXPENSE records with that
\* label; INCOME records contribute to no entry.
C3_OneEntryPerLabel ==
    (pc = "done" /\ Cardinality(ExpenseLabels(call.transactions)) <= 10) =>
        /\ Names(result.expenseByCategory) = ExpenseLabels(call.transactions)
        /\ \A c \in ExpenseLabels(call.transactions) :
              /\ Cardinality(Positions(result.expenseByCategory, c)) = 1
              /\ \A i \in Positions(result.expenseByCategory, c) :
                    result.expenseByCategory[i].value
                        = JsNumber(LabelSum(call.transactions, c))

\* The labels a plain object treats as any other key.
PlainLabel(c) == c \notin DOMAIN ObjectPrototype
PlainLabels(ts) == \A c \in ExpenseLabels(ts) : PlainLabel(c)

\* C3 holds of the lists none of whose expense labels names a property of
\* Object.prototype.
C3_PlainLabels ==
    (pc = "done" /\ PlainLabels(call.transactions)) => C3_OneEntryPerLabel

\* C4: expenseByCategory has length min(distinct expense categories, 10), its
\* values do not increase along it, and every omitted category sums to no more
\* than the smallest value included.
C4_TopTen ==
    pc = "done" =>
        LET entries == result.expenseByCategory
            labels == ExpenseLabels(call.transactions)
        IN  /\ Len(entries) = Min(Cardinality(labels), 10)
            /\ \A i \in 1..Len(entries) : IsNumber(entries[i].value)
            /\ \A i, j \in 1..Len(entries) :
                  i < j => entries[i].value.num >= entries[j].value.num
            /\ \A c \in labels \ Names(entries) :
                  \A i \in 1..Len(entries) :
                      LabelSum(call.transactions, c) <= entries[i].value.num

C4_PlainLabels ==
    (pc = "done" /\ PlainLabels(call.transactions)) => C4_TopTen

\* C5: two categories with equal sums appear in the order in which their first
\* EXPENSE records occur in the input, digit-string labels included, and the
\* same order decides which of them survives the cut to 10.
C5_TiesInEncounterOrder ==
    pc = "done" =>
        LET entries == result.expenseByCategory
            ts == call.transactions
        IN  \A c, d \in ExpenseLabels(ts) :
               (/\ LabelSum(ts, c) = LabelSum(ts, d)
                /\ FirstIndex(ts, c) < FirstIndex(ts, d)
                /\ d \in Names(entries)) =>
                   /\ c \in Names(entries)
                   /\ \A i \in Positions(entries, c), j \in Positions(entries, d) : i < j

\* C5 holds of the lists whose expense labels are neither array indices nor
\* names of properties of Object.prototype.
C5_NoIndexLabels ==
    (/\ pc = "done"
     /\ PlainLabels(call.transactions)
     /\ \A c \in ExpenseLabels(call.transactions) : ~IsArrayIndex(c))
        => C5_TiesInEncounterOrder

\* C6: the entry at rank i (from 0) has colour i mod 10 of the palette, and the
\* colours of one breakdown are pairwise distinct.
C6_ColorByRank ==
    pc = "done" =>
        LET entries == result.expenseByCategory
        IN  /\ \A i \in 1..Len(entries) :
                  entries[i].color = COLORS[((i - 1) % 10) + 1]
            /\ \A i, j \in 1..Len(entries) :
                  i # j => entries[i].color # entries[j].color

C6_Witness ==
    /\ pc = "done"
    /\ Cardinality(ExpenseLabels(call.transactions)) > 10
    /\ Len(result.expenseByCategory) = 10
    /\ result.expenseByCategory[10].color = "#a855f7"

(***************************************************************************)
(* What the claims say of project.                                         *)
(***************************************************************************)

Count(seq, r) == Cardinality({i \in 1..Len(seq) : seq[i] = r})

\* s <= t in lexicographic order of code units: s is a prefix of t, or the
\* first unit in which they differ is smaller in s.
LexLeq(s, t) ==
    \/ /\ Len(s) <= Len(t)
       /\ \A j \in 1..Len(s) : s[j] = t[j]
    \/ \E k \in 1..Min(Len(s), Len(t)) :
          /\ \A j \in 1..(k - 1) : s[j] = t[j]
          /\ s[k] < t[k]

\* key(x) <= key(y): numeric for amount, lexicographic for the string fields.
KeyLeq(key, x, y) ==
    IF key = "amount" THEN x.amount <= y.amount
    ELSE LexLeq(CodeUnits[x[key]], CodeUnits[y[key]])

\* C8: with a category filter present, project returns only records of that
\* category, every such record of the input, a sub-multiset of the unfiltered
\* projection, and the empty sequence when no record carries the label.
C8_Filter ==
    (pc = "done" /\ call.selectedCategory # Null) =>
        LET wanted == ValueOf(call.selectedCategory)
            ts == call.transactions
            unfiltered == project(ts, call.sortConfig, Null, call.engine)
        IN  /\ \A i \in 1..Len(result) : result[i].category = wanted
            /\ \A i \in 1..Len(ts) :
                  ts[i].category = wanted => Count(result, ts[i]) = Count(ts, ts[i])
            /\ \A i \in 1..Len(result) :
                  Count(result, result[i]) <= Count(unfiltered, result[i])
            /\ (\A i \in 1..Len(ts) : ts[i].category # wanted) => result = <<>>

C8_Witness ==
    /\ pc = "done"
    /\ call.selectedCategory = Some("Food")
    /\ Len(call.transactions) = 3
    /\ Len(result) = 2
    /\ result[1].id = "t3"

\* C9: the sequence project returns is ordered by the sort key, ascending for
\* asc and descending for desc, numerically for amount and lexicographically
\* for category, description, date and type.
C9_Ordered ==
    pc = "done" =>
        \A i \in 1..(Len(result) - 1) :
            IF call.sortConfig.direction = "asc"
            THEN KeyLeq(call.sortConfig.key, result[i], result[i + 1])
            ELSE KeyLeq(call.sortConfig.key, result[i + 1], result[i])

C9_Witness ==
    /\ pc = "done"
    /\ call.sortConfig = [key |-> "category", direction |-> "desc"]
    /\ call.selectedCategory = Null
    /\ Len(result) = 3
    /\ result[1].category = "food"
    /\ result[2].category = "2"
    /\ result[3].category = "10"
    /\ result # call.transactions

ProjectBoth(direction) ==
    IF call.sortConfig.direction = direction THEN result
    ELSE project(call.transactions,
                 [key |-> call.sortConfig.key, direction |-> direction],
                 call.selectedCategory, call.engine)

KeysOf(seq) == [i \in 1..Len(seq) |-> seq[i][call.sortConfig.key]]

\* C10 as claimed: for a fixed key, the asc projection reversed is the desc
\* projection, record for record, also when records share a key value.
C10_ReversedAscIsDesc ==
    pc = "done" => Reverse(ProjectBoth("asc")) = ProjectBoth("desc")

\* C10 as amended: the asc projection reversed and the desc projection carry
\* the same key values position by position, and are the same sequence of
\* records when no two records of the projection share a key value.
C10_ReversedAscIsDescOnDistinctKeys ==
    pc = "done" =>
        LET asc == ProjectBoth("asc")
            desc == ProjectBoth("desc")
        IN  /\ KeysOf(Reverse(asc)) = KeysOf(desc)
            /\ (\A i, j \in 1..Len(asc) :
                   i # j => asc[i][call.sortConfig.key] # asc[j][call.sortConfig.key])
               => Reverse(asc) = desc

C10_Witness ==
    /\ pc = "done"
    /\ call.sortConfig.key = "amount"
    /\ Len(result) = 3
    /\ \E i, j \in 1..3 : i # j /\ result[i].amount = result[j].amount
    /\ \E i, j \in 1..3 : result[i].amount # result[j].amount
    /\ Reverse(ProjectBoth("asc")) # ProjectBoth("desc")

(***************************************************************************)
(* What the claims say of the component.                                   *)
(***************************************************************************)

\* C7: in every reachable state the displayed stats are computeStats of the
\* current transaction list, and the displayed table is project of the
\* current transaction list, sort configuration and category filter.
C7_NoStaleView ==
    pc = "app" =>
        /\ \E engine \in Engines : stats = computeStats(transactions, engine)
        /\ \E engine \in Engines :
              sortedAndFilteredTransactions =
                 project(transactions, sortConfig, selectedCategory, engine)

\* A list of two records was changed, sorted by amount and filtered by a
\* category, and the table shows fewer rows than the list has.
C7_Witness ==
    /\ pc = "app"
    /\ Len(transactions) = 2
    /\ sortConfig.key = "amount"
    /\ selectedCategory = Some("Lazer")
    /\ Len(sortedAndFilteredTransactions) = 1
    /\ stats.totalExpenses # 0
    /\ stats.totalIncome # 0

(***************************************************************************)
(* What the claims say of evaluating the two computations.                 *)
(***************************************************************************)

\* C11: an evaluation of project and computeStats leaves the transaction
\* list as it was, contents and order, returns project and computeStats of
\* that list, and a second evaluation on the unchanged inputs returns the
\* same results as the first.
C11_Pure ==
    [][pc' # pc =>
          /\ call' = call
          /\ result'.table =
                project(call.transactions, call.sortConfig, call.selectedCategory,
                        call.engine)
          /\ result'.stats = computeStats(call.transactions, call.engine)
          /\ pc = "once" => result' = result]_vars

\* Both computations were evaluated twice on an unfiltered list of three
\* records that the sort had to reorder.
C11_Witness ==
    /\ pc = "twice"
    /\ call.selectedCategory = Null
    /\ Len(call.transactions) = 3
    /\ result.table # call.transactions
    /\ result.stats.totalExpenses # 0

\* C12: in every reachable state every transaction of the list has an
\* amount >= 0.
C12_AmountsNonNegative ==
    pc = "app" => \A i \in 1..Len(transactions) : transactions[i].amount >= 0

(***************************************************************************)
(* What the claims say of the import of one file.                          *)
(***************************************************************************)

Abs(n) == IF n < 0 THEN -n ELSE n

\* The number a raw amount denotes, when it denotes one.
NumericStrings == ("7" :> 7) @@ ("-5" :> -5)
IsParseable(v) ==
    v.kind = "number" \/ (v.kind = "string" /\ v.str \in DOMAIN NumericStrings)
AmountValue(v) == IF v.kind = "number" THEN v.num ELSE NumericStrings[v.str]

\* A field that the raw record gives.
IsGiven(v) == v.kind = "string" /\ v.str # ""

\* C13: the import makes of a parseable amount a, number or numeric string,
\* positive or negative, the amount |a|, and of an unparseable or missing
\* amount the amount 0.
C13_AbsoluteAmount ==
    (pc = "done" /\ result.settled = "resolved") =>
        \A i \in 1..Len(call.file.items) :
            result.value[i].amount =
                IF IsParseable(call.file.items[i].amount)
                THEN Abs(AmountValue(call.file.items[i].amount))
                ELSE 0

\* C14: the import makes of every raw record one transaction, in file order,
\* with the type the caller selected, whatever type the record declares, the
\* record's category or 'Outros' when it gives none, the record's date or the
\* current date when it gives none, the record's description or the empty
\* string when it gives none; a JSON value that is no array is one record.
C14_Normalised ==
    (pc = "done" /\ result.settled = "resolved") =>
        /\ Len(result.value) = Len(call.file.items)
        /\ call.file.kind = "object" => Len(result.value) = 1
        /\ \A i \in 1..Len(call.file.items) :
              LET item == call.file.items[i]
                  t == result.value[i]
              IN  /\ t.type = call.type
                  /\ t.category = IF IsGiven(item.category) THEN item.category.str
                                  ELSE "Outros"
                  /\ t.date = IF IsGiven(item.date) THEN item.date.str ELSE Today
                  /\ t.description = IF IsGiven(item.description)
                                     THEN item.description.str ELSE ""
                  /\ t.id = call.ids[i]

\* An array of two records was imported as expenses: the first gives an
\* unparseable amount and no category, the second declares itself an income.
C14_Witness ==
    /\ pc = "done"
    /\ result.settled = "resolved"
    /\ call.type = EXPENSE
    /\ call.file.kind = "array"
    /\ Len(call.file.items) = 2
    /\ call.file.items[1].amount = JsString("abc")
    /\ call.file.items[1].category = Undefined
    /\ call.file.items[1].date = JsString("2024-02-01")
    /\ call.file.items[2].type = JsString(INCOME)
    /\ result.value[1].category = "Outros"
    /\ result.value[2].type = EXPENSE

(***************************************************************************)
(* What the claims say of the import as a whole.                           *)
(***************************************************************************)

\* The raw records of the files an import was started with, each with the
\* type of its file: those of the income file, then those of the expense file.
RawOf(file, type) ==
    IF file = Null THEN <<>>
    ELSE [i \in 1..Len(ValueOf(file).items) |->
            [item |-> ValueOf(file).items[i], type |-> type]]
RawOfTask(task) == RawOf(task.incomeFile, INCOME) \o RawOf(task.expenseFile, EXPENSE)

FailsToParse(file) == file # Null /\ ValueOf(file).kind = "invalid"

\* C15: a step of a running import leaves the transaction list as it is
\* until the import ends; an import that ends after every file parsed leaves
\* exactly the imported records, those of the income file in file order and
\* then those of the expense file, whatever the list held; an import that
\* ends because a file did not parse leaves the list as it was and raises
\* an alert.
C15_AllOrNothing ==
    [][(pc = "app" /\ importTask # Null /\ importTask' # importTask) =>
          LET task == ValueOf(importTask)
              raw == RawOfTask(task)
          IN  IF importTask' # Null
              THEN transactions' = transactions /\ alerted' = Null
              ELSE IF FailsToParse(task.incomeFile) \/ FailsToParse(task.expenseFile)
              THEN transactions' = transactions /\ alerted' = Some(ImportErrorText)
              ELSE /\ alerted' = Null
                   /\ Len(transactions') = Len(raw)
                   /\ \A i \in 1..Len(raw) :
                         transactions'[i] =
                            ImportedTransaction(raw[i].item, raw[i].type,
                                                transactions'[i].id)]_vars

\* An import of both files has ended: the list is the record of the income
\* file followed by the record of the expense file.
C15_Witness ==
    /\ pc = "app"
    /\ importTask = Null
    /\ ~isImporting
    /\ alerted = Null
    /\ Len(transactions) = 2
    /\ transactions[1].type = INCOME
    /\ transactions[1].category = "Renda"
    /\ transactions[1].amount = 7
    /\ transactions[2].type = EXPENSE
    /\ transactions[2].category = "Outros"
    /\ transactions[2].description = "Zoo"

(***************************************************************************)
(* What the claims say of the records of the list.                         *)
(***************************************************************************)

\* C16: in every reachable state the ids of the transactions of the list
\* are pairwise distinct.
C16_UniqueIds ==
    pc = "app" =>
        \A i, j \in 1..Len(transactions) :
            transactions[i].id = transactions[j].id => i = j

\* C17: the type of a record is fixed at creation: a step that keeps the
\* records of the list (every step but a creation, a deletion and the end of
\* an import) leaves the type of every record as it was.
C17_TypeFixed ==
    [][(pc = "app" /\ importTask' = importTask
        /\ Len(transactions') = Len(transactions)) =>
          \A i \in 1..Len(transactions) :
              transactions'[i].id = transactions[i].id =>
                  transactions'[i].type = transactions[i].type]_vars

\* The record a form submission makes of the submitted fields.
Submitted(form, id) ==
    [id |-> id, type |-> form.type, category |-> form.category,
     amount |-> form.amount, date |-> form.date, description |-> form.description]

\* The fields of a record, as a form gives them.
FieldsOf(t) ==
    [type |-> t.type, category |-> t.category, amount |-> t.amount,
     date |-> t.date, description |-> t.description]

\* The list with exactly the records whose position is in keep, in order.
RECURSIVE Keeping(_, _, _)
Keeping(ts, keep, i) ==
    IF i > Len(ts) THEN <<>>
    ELSE (IF i \in keep THEN <<ts[i]>> ELSE <<>>) \o Keeping(ts, keep, i + 1)

\* C18: a step that closes the form either leaves the list as it is, or, in
\* create mode, puts one new record with the submitted fields at the head
\* of the unchanged list, or, in edit mode, keeps length and positions, puts
\* the submitted fields with the edited id at every position that carries the
\* edited id and leaves every other record as it is; every other step that
\* changes the list outside an import removes exactly the records of one id
\* and keeps the others in order.
C18_ListFrame ==
    [][(pc = "app" /\ importTask' = importTask /\ transactions' # transactions) =>
          IF isModalOpen /\ ~isModalOpen'
          THEN IF editingTransaction = Null
               THEN /\ Len(transactions') = Len(transactions) + 1
                    /\ FieldsOf(transactions'[1]) \in FormInputs
                    /\ Tail(transactions') = transactions
               ELSE /\ Len(transactions') = Len(transactions)
                    /\ \E form \in FormInputs :
                          \A i \in 1..Len(transactions) :
                              transactions'[i] =
                                 IF transactions[i].id = ValueOf(editingTransaction).id
                                 THEN Submitted(form, ValueOf(editingTransaction).id)
                                 ELSE transactions[i]
          ELSE \E id \in {transactions[i].id : i \in 1..Len(transactions)} :
                  transactions' =
                     Keeping(transactions,
                             {i \in 1..Len(transactions) : transactions[i].id # id}, 1)
     ]_vars

\* Form submissions have made a list of two records of different ids and
\* different submitted fields, and the form is closed.
C18_Witness ==
    /\ pc = "app"
    /\ ~isModalOpen
    /\ Len(transactions) = 2
    /\ transactions[1].id # transactions[2].id
    /\ FieldsOf(transactions[1]) \in FormInputs
    /\ FieldsOf(transactions[2]) \in FormInputs
    /\ FieldsOf(transactions[1]) # FieldsOf(transactions[2])

(***************************************************************************)
(* What the claims say of the category list.                               *)
(***************************************************************************)

\* C19: when a change of the transaction list has settled, the category
\* list holds exactly the labels it held before and the categories of the
\* transactions now in the list, each once, in ascending lexicographic order.
C19_CategoriesReconciled ==
    [][(pc = "app" /\ effectPending /\ ~effectPending') =>
          /\ Range(categories') =
                Range(categories) \cup
                {transactions[i].category : i \in 1..Len(transactions)}
          /\ \A i, j \in 1..Len(categories') :
                categories'[i] = categories'[j] => i = j
          /\ \A i \in 1..(Len(categories') - 1) :
                LexLeq(CodeUnits[categories'[i]], CodeUnits[categories'[i + 1]])
     ]_vars

\* The list changed and settled, and the category list still holds 'Outros',
\* which an import brought and which no transaction carries any more.
C19_Witness ==
    /\ pc = "app"
    /\ ~effectPending
    /\ "Outros" \in Range(categories)
    /\ transactions # <<>>
    /\ \A i \in 1..Len(transactions) : transactions[i].category # "Outros"

(***************************************************************************)
(* What the claims say of the insight request.                             *)
(***************************************************************************)

\* C20: the request carries the first min(50, n) transactions of the list,
\* in list order, and of each of them the type, the amount, the category and
\* the date and nothing else: no id and no description.
C20_RequestContent ==
    pc = "done" =>
        LET ts == call.transactions
            sent == result.contents.transactions
        IN  /\ Len(sent) = Min(50, Len(ts))
            /\ \A i \in 1..Len(sent) :
                  /\ {member[1] : member \in Range(sent[i])} =
                        {"type", "amount", "category", "date"}
                  /\ Len(sent[i]) = 4
                  /\ \A member \in Range(sent[i]) : member[2] = ts[i][member[1]]

\* A request was made for a list of 52 records: it carries 50 of them.
C20_Witness ==
    /\ pc = "done"
    /\ Len(call.transactions) = 52
    /\ Len(result.contents.transactions) = 50
    /\ call.transactions[1].description = "Zoo"

\* C21: getFinancialInsights never rejects: its promise resolves with a
\* string, and with one of the two fixed fallback strings when the client
\* construction throws, the remote call throws or the response is empty.
C21_NeverRejects ==
    pc = "done" =>
        /\ result.settled = "resolved"
        /\ (call.construction = "throws" \/ call.response \in {"empty", "throws"})
              => result.value \in {NoInsightsText(call.service),
                                   InsightsErrorText(call.service)}

(***************************************************************************)
(* What the claims say of the insight panel.                               *)
(***************************************************************************)

\* C22: while a request is in flight the form can be opened, a shown record
\* can be edited or deleted, an open form can be submitted and an import of
\* the selected file can be started; such steps leave the request as it was
\* issued, for the list of that moment; and when the request is answered,
\* the text generated for it, or a fallback string, becomes insights and
\* loadingInsights is false, whatever the list is by then.
C22_NoStalenessCheck ==
    /\ [](( pc = "app" /\ insightTask # Null /\ Ready) =>
            /\ ENABLED OpenNewTransaction
            /\ sortedAndFilteredTransactions # <<>> =>
                  /\ ENABLED (\E t \in Range(sortedAndFilteredTransactions) :
                                 handleEditClick(t))
                  /\ ENABLED (\E t \in Range(sortedAndFilteredTransactions) :
                                 deleteTransaction(t.id))
            /\ (~isImporting /\ selectedExpenseFile # Null) =>
                  ENABLED handleExecuteImport)
    /\ [](( pc = "app" /\ insightTask # Null /\ Ready /\ isModalOpen
            /\ editingTransaction # Null) =>
            ENABLED (\E form \in FormInputs, newId \in IdPool :
                        saveTransaction(form, newId)))
    /\ [][(pc = "app" /\ insightTask' # insightTask) =>
             IF insightTask = Null
             THEN /\ insightTask' = Some(InsightRequest(transactions, "part_000"))
                  /\ loadingInsights'
             ELSE /\ insightTask' = Null
                  /\ ~loadingInsights'
                  /\ transactions' = transactions
                  /\ insights' \in
                        {Some(GeneratedText(ValueOf(insightTask))),
                         Some(NoInsightsText("part_000")),
                         Some(InsightsErrorText("part_000"))}]_vars

\* A request is in flight and the list is no longer the list it was issued
\* for: an import has replaced it.
C22_Witness ==
    /\ pc = "app"
    /\ insightTask # Null
    /\ loadingInsights
    /\ ~isImporting
    /\ transactions # <<>>
    /\ transactions[1].category = "Outros"
    /\ ValueOf(insightTask).contents.transactions #
          JsonStringify(SummaryOf(transactions))

\* C23: every import that is started ends, and every insight request that is
\* started ends, under every outcome: isImporting and loadingInsights are
\* false again after having been true.
C23_NothingStuck ==
    /\ (pc = "app" /\ isImporting) ~> ~isImporting
    /\ (pc = "app" /\ loadingInsights) ~> ~loadingInsights

\* ---------------------------------------------------------------------
\* C24: the sort configuration starts as (date, desc); a click on the header
\* of column k, handleSort(k), sets the key to k and the direction to desc
\* exactly when the configuration before was (k, asc), and to asc in every
\* other case.  Stated in both directions: on the page every column can be
\* clicked and the click leads to that configuration, and no step changes
\* the configuration in another way.
C24_SortToggle ==
    /\ sortConfig = [key |-> "date", direction |-> "desc"]
    /\ [](PageReady =>
            \A k \in SortColumns :
               ENABLED (/\ handleSort(k)
                        /\ sortConfig' =
                              [key |-> k,
                               direction |->
                                  IF sortConfig = [key |-> k, direction |-> "asc"]
                                  THEN "desc" ELSE "asc"]))
    /\ [][sortConfig' # sortConfig =>
            sortConfig'.direction =
               IF sortConfig = [key |-> sortConfig'.key, direction |-> "asc"]
               THEN "desc" ELSE "asc"]_vars

\* A second click on the amount column: ascending, then descending.
C24_Witness ==
    /\ pc = "app"
    /\ sortConfig = [key |-> "amount", direction |-> "desc"]

\* ---------------------------------------------------------------------
\* The list without the label c, and the step that is handleDeleteCategory(c):
\* the only step that shortens the category list.
Without(cats, c) == SelectSeq(cats, LAMBDA x : x # c)
DeletesCategory(c) ==
    /\ c \in Range(categories)
    /\ categories' = Without(categories, c)

\* Every record that had category c now has 'Uncategorized' and is otherwise
\* the same, every other record is unchanged, and the filter is cleared
\* when it was c.
Reassigned(c) ==
    /\ Len(transactions') = Len(transactions)
    /\ \A i \in 1..Len(transactions) :
          transactions'[i] =
             IF transactions[i].category = c
             THEN [transactions[i] EXCEPT !.category = "Uncategorized"]
             ELSE transactions[i]
    /\ selectedCategory' =
          IF selectedCategory = Some(c) THEN Null ELSE selectedCategory

\* C25: in the variant that reassigns on delete, after a confirmed
\* handleDeleteCategory(c) no transaction has category c, the records of c
\* are reassigned to 'Uncategorized' and the filter is cleared when it was
\* c; in App.tsx handleDeleteCategory(c) removes c from the category list
\* and leaves the transaction list unchanged.
C25_DeleteReassigns ==
    [][\A c \in Range(categories) :
          DeletesCategory(c) =>
             IF pc = "part_002"
             THEN /\ Reassigned(c)
                  /\ \A i \in 1..Len(transactions') : transactions'[i].category # c
             ELSE transactions' = transactions]_vars

\* What does hold of the variant's delete: the reassignment itself, and the
\* absence of c afterwards for every c other than 'Uncategorized'.
ReassignsOthers ==
    [][\A c \in Range(categories) :
          (pc = "part_002" /\ DeletesCategory(c)) =>
             /\ Reassigned(c)
             /\ c # "Uncategorized" =>
                   \A i \in 1..Len(transactions') : transactions'[i].category # c]_vars

\* ---------------------------------------------------------------------
\* C26: in every settled state of the component (no effect pending), the
\* category of every transaction in the list is a member of the category
\* list.
C26_CategoriesCoverRecords ==
    (pc = "app" /\ ~effectPending) =>
       \A i \in 1..Len(transactions) :
          transactions[i].category \in Range(categories)

\* ---------------------------------------------------------------------
\* C27: after a successful import has reset insights to null, insights stays
\* null until generateAIInsights is invoked again: insights gets a text only
\* as the answer to a request, and not as the answer to a request that was
\* in flight when the import ended.
C27_ResetHolds ==
    /\ []((pc = "app" /\ importedSince) => insights = Null)
    /\ [][(pc = "app" /\ insights' # insights /\ insights' # Null) =>
             (insightTask # Null /\ insightTask' = Null)]_vars

\* ---------------------------------------------------------------------
\* The sum of the values of the entries, when every value is a number.
RECURSIVE ValueSum(_)
ValueSum(entries) ==
    IF entries = <<>> THEN 0
    ELSE Head(entries).value.num + ValueSum(Tail(entries))
AllNumbers(entries) == \A i \in 1..Len(entries) : IsNumber(entries[i].value)

\* The sum of the values is a number, at most totalExpenses, and equal to it
\* when the EXPENSE records carry at most 10 distinct categories.
SumWithinTotal ==
    /\ AllNumbers(result.expenseByCategory)
    /\ ValueSum(result.expenseByCategory) <= result.totalExpenses
    /\ Cardinality(ExpenseLabels(call.transactions)) <= 10 =>
          ValueSum(result.expenseByCategory) = result.totalExpenses

\* C28: for every transaction list with amounts >= 0, the sum of the values
\* of expenseByCategory is at most totalExpenses, and it equals totalExpenses
\* whenever the EXPENSE records carry at most 10 distinct categories.
C28_SumWithinTotal ==
    (pc = "done" /\ AllNonNegative(call.transactions)) => SumWithinTotal

\* The same holds of the lists none of whose expense labels names a property
\* of Object.prototype, the lists of more than 10 categories among them.
SumWithinTotalPlainLabels ==
    (pc = "done" /\ AllNonNegative(call.transactions)
                 /\ PlainLabels(call.transactions)) => SumWithinTotal

\* ---------------------------------------------------------------------
\* s is in strictly ascending order of code units: sorted as the default
\* sort orders strings, and no label twice.
StrictlyAscending(s) ==
    \A i \in 1..(Len(s) - 1) : SeqLess(CodeUnits[s[i]], CodeUnits[s[i + 1]])

\* C29: in every settled state after the initial mount (no effect pending), in
\* either component, the category list is sorted in ascending lexicographic
\* order and holds no label twice.
C29_SortedNoDuplicates ==
    (pc \in Builds /\ ~effectPending) => StrictlyAscending(categories)

\* The variant after a rename to a label that the list already held, and
\* after the effect that follows it: both rows have become one.
C29_Witness ==
    /\ pc = "part_002"
    /\ ~effectPending
    /\ "Groceries" \notin Range(categories)
    /\ "Rent" \in Range(categories)
    /\ \E i \in 1..Len(transactions) :
          /\ transactions[i].category = "Rent"
          /\ transactions[i].amount = 3

==============================================================================
